---- MODULE Spec2Model ----
(***************************************************************************)
(* Batch processing core of the pump.fun indexer.                          *)
(*                                                                         *)
(*   Spec       the batch handler of src/src/processor.ts: one handler     *)
(*              task per instruction, started without awaiting it, over    *)
(*              the single-map MemoryStore that writes itself out when it  *)
(*              grows past its size limit, then the per-service flushes.   *)
(*   StoreSpec  the insert/update-list MemoryStore of src/unnamed/part_003 *)
(*              (find / save / flush on one store).                        *)
(*   PlainSpec  the single-map MemoryStore of src/src/store/memory.store.ts*)
(*              whose flush writes everything with ctx.store.save.         *)
(*   SerialSpec the serial batch handler of src/unnamed/part_000: each     *)
(*              handler awaited in turn, one run as one batch and one run  *)
(*              split into two batches.                                    *)
(*   WalletSpec the wallet statistics of src/unnamed/part_007 behind       *)
(*              TradeService.processTradeInstruction.                      *)
(*   GlobalSpec initialize, setParams and the seed of new curves.          *)
(*   CollectSpec collectEntityIds and the dispatch pass of handle.         *)
(*   DecoderSpec PumpEventDecoder of src/unnamed/part_001 and its caller.  *)
(*   ChunkSpec  the write calls of the end-of-batch flush.                 *)
(*   ThresholdSpec find and save of the single-map store with a threshold. *)
(*   EndSpec    the stores the end-of-batch save visits.                   *)
(*   LockSpec   the transaction queue and lock of src/unnamed/part_004;    *)
(*              LockFairSpec adds the fairness of timers and awaits.       *)
(*   TaskFairSpec the loop over processorContext.queue of part_001.        *)
(***************************************************************************)
EXTENDS Integers, Sequences, FiniteSets, TLC

\* ------------------------------------------------------------------ bounds
\* Longest batch (number of pump.fun instructions in ctx.blocks).
MaxBatch == 3
\* Size limit of a single-map MemoryStore.  The source uses 1000
\* (if (this.map.size > 1000)); the model scales it down so that a batch of
\* MaxBatch instructions can cross it.
MapLimit == 2

\* ------------------------------------------------------------ identifiers
Mint == "M1"
Curve == "C1"
TxSig == "h1"
Slot == "s7"
GlobalId == "global"

Kinds == {"GlobalConfig", "PumpToken", "BondingCurve", "Trade",
          "TokenCreated", "TokenCompleted"}

\* ------------------------------------------------------- JavaScript Map
EmptyMap == [x \in {} |-> 0]

MapHas(m, k) == k \in DOMAIN m

MapSet(m, k, v) == [x \in (DOMAIN m) \cup {k} |-> IF x = k THEN v ELSE m[x]]

\* upsert / save of a list of entities into one table of the durable store
DbWrite(table, m) == [x \in (DOMAIN table) \cup (DOMAIN m) |->
                        IF x \in DOMAIN m THEN m[x] ELSE table[x]]

\* ---------------------------------------------------------- instructions
\* kind   which layout the discriminator selects
\* ok     the payload decodes (setParams: the instruction itself; create /
\*        buy / sell: the inner event instruction is present and decodes)
\* isBuy  direction carried by the trade event
Instr(kind, ok, isBuy) ==
  [kind |-> kind, ok |-> ok, isBuy |-> isBuy, sol |-> 1, tok |-> 1]

Catalogue ==
  { Instr("setParams", TRUE, FALSE), Instr("setParams", FALSE, FALSE),
    Instr("create", TRUE, FALSE),    Instr("create", FALSE, FALSE),
    Instr("trade", TRUE, TRUE),      Instr("trade", TRUE, FALSE) }

RECURSIVE SeqsUpTo(_, _)
SeqsUpTo(S, n) ==
  IF n = 0 THEN { << >> }
  ELSE LET shorter == SeqsUpTo(S, n - 1)
       IN  shorter \cup { Append(s, x) : s \in { t \in shorter : Len(t) = n - 1 }, x \in S }

Batches == SeqsUpTo(Catalogue, MaxBatch) \ { << >> }

\* --------------------------------------------------------------- entities
PlaceholderToken == [name |-> "mint", status |-> "active"]
CreatedToken     == [name |-> "event", status |-> "active"]
CurveRec(rSol, rTok) == [realSol |-> rSol, realTok |-> rTok]
TradeRec(i, ins)  == [token |-> Mint, isBuy |-> ins.isBuy, sol |-> ins.sol,
                      tok |-> ins.tok, instr |-> i]
CreatedRec(i)     == [token |-> Mint, instr |-> i]
GlobalRec         == [feeBasisPoints |-> 30]

\* what the durable store can hold when the batch starts
InitialDbs ==
  { [k \in Kinds |->
        IF k = "PumpToken" /\ hasToken THEN [x \in {Mint} |-> CreatedToken]
        ELSE IF k = "BondingCurve" /\ hasCurve THEN [x \in {Curve} |-> CurveRec(1, 1)]
        ELSE EmptyMap]
    : hasToken \in BOOLEAN, hasCurve \in BOOLEAN }

VARIABLES
  batch,         \* the instructions of ctx.blocks, in stream order
  hpc,           \* where handle() is
  next,          \* index of the next instruction of the dispatch loop
  task,          \* asyncTasks: one handler task per dispatched instruction
  stores,        \* StoreManager.stores: kind -> MemoryStore.map
  txLogCounter,  \* TradeService.txLogCounter[TxSig]
  db,            \* the durable store: kind -> table
  dbLog,         \* every write call issued to the durable store, in order
  flushed,       \* stores whose end-of-batch flush has completed
  db0            \* the durable store as it was when the batch started

hvars == <<batch, hpc, next, task, stores, txLogCounter, db, dbLog, flushed, db0>>

\* the insert/update-list MemoryStore
VARIABLES
  insertList,   \* MemoryStore.insertList
  updateList,   \* MemoryStore.updateList
  sdb,          \* the table of the durable store: id -> value
  sbad,         \* ids whose records the durable store rejects on write
  sfind,        \* per caller: the id of its find() suspended in ctx.store.get
  sflush,       \* where flush() is, and the array it iterates
  slog,         \* calls issued to the durable store, in order
  sret,         \* what the call made by the last step returned
  shist         \* the find and save calls made so far

svars == <<insertList, updateList, sdb, sbad, sfind, sflush, slog, sret, shist>>

\* the single-map MemoryStore with an event list
VARIABLES
  pmap,         \* MemoryStore.map
  pevents,      \* MemoryStore.events
  isEventType,  \* MemoryStore.isEventType
  pdb,          \* the table of the durable store: id -> value
  ppc,          \* "idle", "flushing" (awaiting ctx.store.save), "done", "threw"
  plog,         \* calls issued to the durable store, in order
  pret,         \* what the call made by the last step returned
  pcalls        \* find, save and update calls made so far

pvars == <<pmap, pevents, isEventType, pdb, ppc, plog, pret, pcalls>>

\* the serial handler: the same instruction sequence run as one batch
\* and run as two consecutive batches
VARIABLES
  seq,          \* the pump.fun instructions, in stream order
  cut,          \* how many of them the first of the two batches holds
  pos,          \* index of the next instruction
  lpc,          \* "first", "second" (batch of the two-batch run), "done"
  one,          \* memory and durable store of the one-batch run
  two,          \* memory and durable store of the two-batch run
  prev          \* both of them as they were before the last handler ran

lvars == <<seq, cut, pos, lpc, one, two, prev>>

\* the wallet statistics of one TradeService instance, batch after batch
VARIABLES
  wired,        \* TRUE iff the TradeService was given a WalletStatsService
  wstats,       \* Map of the WalletStats store, keyed by wallet
  wtstats,      \* Map of the WalletTokenStats store, keyed by <<wallet, token>>
  wdb,          \* what the flushes have written to the database so far
  wtraded,      \* the trades createTrade has recorded in this batch
  applied,      \* the trades applyTrade has been called with in this batch
  wn            \* trades handled since the start

wvars == <<wired, wstats, wtstats, wdb, wtraded, applied, wn>>

\* the GlobalConfig singleton and the curves seeded from it
VARIABLES
  gvariant,     \* which copy of the GlobalService runs
  gmem,         \* Map of the GlobalConfig store of this batch
  gdb,          \* GlobalConfig table of the database
  gparams,      \* curve parameters cached in the GlobalService of this batch
  gcurves,      \* the curves create instructions have made
  gset,         \* arguments of the most recent setParams handled, if any
  glast,        \* the instruction handled last in this batch, if any
  gn            \* instructions handled since the start

gvars == <<gvariant, gmem, gdb, gparams, gcurves, gset, glast, gn>>

\* the two passes of handle over one batch
VARIABLES
  cbatch,       \* the pump.fun instructions of the batch, in stream order
  cpc,          \* "collect", "dispatch", "done", "failed"
  ci,           \* index of the next instruction of the dispatch pass
  cids,         \* what collectEntityIds returned
  chandled,     \* indices of the instructions handed to a service
  clooked       \* the token and curve ids the trade handlers asked for

cvars == <<cbatch, cpc, ci, cids, chandled, clooked>>

\* the event decoder and the layout lookup of the dispatcher
VARIABLES
  dlog,         \* what each call so far was given and what came of it
  dunknown,     \* stats.instructions.unknownlayout
  dhanded       \* instructions handed to a service

dvars == <<dlog, dunknown, dhanded>>

\* the end-of-batch write of the pending records, call by call
VARIABLES
  kvariant,     \* "StoreManager.save" (memory.store.ts) or "MemoryStore.flush" (part_003)
  kfirst,       \* pending records written first (non-event store / insertList)
  ksecond,      \* pending records written second (event store / updateList)
  kpc,          \* "first", "second", "done", "failed"
  ki,           \* loop index i of StoreManager.save
  kcalls        \* the write calls issued to ctx.store so far

kvars == <<kvariant, kfirst, ksecond, kpc, ki, kcalls>>

\* one single-map MemoryStore with its size threshold, within a batch
VARIABLES
  tvariant,     \* "memory.store" (write not awaited) or "part_003" (write awaited)
  tmap,         \* this.map
  tsaved,       \* the record last given to save, per id, in this batch
  tflight,      \* the upserts that were started and have not completed
  tdb,          \* the table of the durable store
  tfound,       \* the last find: its id and what it returned
  tn            \* calls since the start

tvars == <<tvariant, tmap, tsaved, tflight, tdb, tfound, tn>>

\* the end-of-batch save over the stores of one StoreManager
VARIABLES
  evariant,     \* which end-of-batch save runs
  estores,      \* the names in StoreManager.stores
  epending,     \* the stores that hold entities not yet written
  eorder,       \* the flushes the save has still to make
  edb,          \* the tables that have received this run's entities
  epc           \* "dispatch", "save" or "done"

evars == <<evariant, estores, epending, eorder, edb, epc>>

\* the StoreManager with a transaction queue and a lock
VARIABLES
  transactionQueue,   \* the operations scheduled and not yet taken
  isProcessingQueue,
  transactionLock,
  qcur,         \* the operation processQueue has taken, or NoOp
  qpc,          \* processQueue: "idle", "polling", "acquired" or "upsert"
  qfind,        \* each findEntitiesByIds call: "new", "polling", "acquired",
                \* "finding" or "done"
  qholders,     \* who is between its acquireLock and its releaseLock:
                \* 0 for processQueue, f for reader f
  qsettled,     \* the resolve and reject calls made on each operation
  qexec,        \* the operations in the order in which they were executed
  qn            \* operations scheduled so far

qvars == <<transactionQueue, isProcessingQueue, transactionLock, qcur, qpc, qfind, qholders, qsettled, qexec, qn>>

\* the end-of-batch loop over processorContext.queue
VARIABLES
  rqueue,       \* the tasks of the queue the iterator has not reached yet
  rslot,        \* the index of the iterator, modulo 2
  rlast,        \* how the task that ran last ended
  rpc           \* "loop" or "done"

rvars == <<rqueue, rslot, rlast, rpc>>

xvars == <<wvars, gvars, cvars, dvars, kvars, tvars, evars, qvars, rvars>>

vars == <<hvars, svars, pvars, lvars, xvars>>

NoTask == [pc |-> "new", inMem |-> FALSE, newSol |-> 0, newTok |-> 0]

\* one call of ctx.store.upsert / ctx.store.save
\*   by = "save"  issued from inside MemoryStore.save
\*   by = "flush" issued from MemoryStore.flush
Call(op, kind, m, by, ok) ==
  [op |-> op, kind |-> kind, ids |-> DOMAIN m, by |-> by, ok |-> ok]

\* ------------------------------------------------ collectEntityIds/prefetch
CollectTokenIds(b) ==
  IF \E i \in 1..Len(b) : b[i].kind \in {"create", "trade"} /\ b[i].ok
  THEN {Mint} ELSE {}

\* a buy or a sell is decoded with the buy layout, whose bondingCurve is
\* account 0: the curve for a buy, the global account for a sell
CollectCurveIds(b) ==
  IF \E i \in 1..Len(b) : (b[i].kind = "trade" /\ b[i].isBuy)
                              \/ (b[i].kind = "create" /\ b[i].ok)
  THEN {Curve} ELSE {}

\* ctx.store.findBy(kind, {id: In(ids)})
FindBy(table, ids) == [x \in (DOMAIN table) \cap ids |-> table[x]]

\* ------------------------------------------------------- MemoryStore.save
\* map.set, and past the size limit: copy the values, clear the map and
\* upsert the copy.  ok is the outcome of that upsert.  The result carries
\* the new stores, durable store and call log, and whether the upsert threw.
StoreSave(S, D, L, kind, id, rec, ok) ==
  LET m == MapSet(S[kind], id, rec)
  IN  IF Cardinality(DOMAIN m) > MapLimit
      THEN [s |-> [S EXCEPT ![kind] = EmptyMap],
            d |-> IF ok THEN [D EXCEPT ![kind] = DbWrite(@, m)] ELSE D,
            l |-> Append(L, Call("upsert", kind, m, "save", ok)),
            threw |-> ~ok]
      ELSE [s |-> [S EXCEPT ![kind] = m], d |-> D, l |-> L, threw |-> FALSE]

\* --------------------------------------------------------------- handle
HInit ==
  /\ batch \in Batches
  /\ db \in InitialDbs
  /\ db0 = db
  /\ hpc = "prefetch"
  /\ next = 1
  /\ task = [i \in 1..Len(batch) |-> NoTask]
  /\ stores = [k \in Kinds |-> EmptyMap]
  /\ txLogCounter = 0
  /\ dbLog = << >>
  /\ flushed = {}

\* const [tokens, curves] = await Promise.all([findBy..., findBy...]);
\* new StoreManager(ctx, {tokens, curves})
Prefetch ==
  /\ hpc = "prefetch"
  /\ hpc' = "dispatch"
  /\ stores' = [stores EXCEPT
        !["PumpToken"] = FindBy(db["PumpToken"], CollectTokenIds(batch)),
        !["BondingCurve"] = FindBy(db["BondingCurve"], CollectCurveIds(batch))]
  /\ UNCHANGED <<batch, next, task, txLogCounter, db, dbLog, flushed, db0, svars, pvars, lvars, xvars>>

\* The synchronous head of the handler of one instruction: the code an
\* async function runs before its first await yields.
Started(ins) ==
  CASE ins.kind = "setParams" ->
         IF ins.ok
         THEN [NoTask EXCEPT !.pc = "setGlobal",
                             !.inMem = MapHas(stores["GlobalConfig"], GlobalId)]
         ELSE [NoTask EXCEPT !.pc = "rejected"]
    [] ins.kind = "create" ->
         IF ins.ok
         THEN [NoTask EXCEPT !.pc = "createToken",
                             !.inMem = MapHas(stores["PumpToken"], Mint)]
         ELSE [NoTask EXCEPT !.pc = "rejected"]
    [] OTHER ->
         IF ins.ok
         THEN [NoTask EXCEPT !.pc = "getToken",
                             !.inMem = MapHas(stores["PumpToken"], Mint)]
         ELSE [NoTask EXCEPT !.pc = "done"]

\* asyncTasks.push(service.processXInstruction(instructionContext, stats))
Dispatch ==
  /\ hpc = "dispatch"
  /\ next <= Len(batch)
  /\ task' = [task EXCEPT ![next] = Started(batch[next])]
  /\ next' = next + 1
  /\ UNCHANGED <<batch, hpc, stores, txLogCounter, db, dbLog, flushed, db0, svars, pvars, lvars, xvars>>

\* the dispatch loop has run out of instructions: await Promise.all(asyncTasks)
DispatchEnd ==
  /\ hpc = "dispatch"
  /\ next > Len(batch)
  /\ hpc' = "awaitAll"
  /\ UNCHANGED <<batch, next, task, stores, txLogCounter, db, dbLog, flushed, db0, svars, pvars, lvars, xvars>>

\* handler tasks resume only once handle() itself has yielded
TasksRun == hpc \in {"awaitAll", "failed"}

Settled(t) == t.pc \in {"done", "rejected"}

\* Promise.all rejects as soon as one task has rejected; nothing catches it
AwaitRejected ==
  /\ hpc = "awaitAll"
  /\ \E i \in 1..Len(batch) : task[i].pc = "rejected"
  /\ hpc' = "failed"
  /\ UNCHANGED <<batch, next, task, stores, txLogCounter, db, dbLog, flushed, db0, svars, pvars, lvars, xvars>>

AwaitFulfilled ==
  /\ hpc = "awaitAll"
  /\ \A i \in 1..Len(batch) : task[i].pc = "done"
  /\ hpc' = "flushToken"
  /\ UNCHANGED <<batch, next, task, stores, txLogCounter, db, dbLog, flushed, db0, svars, pvars, lvars, xvars>>

SetPc(i, pc) == task' = [task EXCEPT ![i].pc = pc]

\* the state a StoreSave result leaves behind
Commit(r) == stores' = r.s /\ db' = r.d /\ dbLog' = r.l

\* ------------------------------------------ GlobalService (setParams)
\* setGlobalConfig after its first await: load or create the singleton and
\* store it; processSetParamsInstruction re-throws whatever was thrown.
SetGlobal(i) ==
  /\ TasksRun /\ task[i].pc = "setGlobal"
  /\ \E ok \in BOOLEAN :
       LET r == StoreSave(stores, db, dbLog, "GlobalConfig", GlobalId, GlobalRec, ok)
       IN  /\ Commit(r)
           /\ SetPc(i, IF r.threw THEN "rejected" ELSE "done")
  /\ UNCHANGED <<batch, hpc, next, txLogCounter, flushed, db0, svars, pvars, lvars, xvars>>

\* ------------------------------------------------ TokenService (create)
\* createToken after `await this.tokenStore.find(id)`: an entity found in
\* memory is returned as it is, otherwise the new token is saved.
CreateToken(i) ==
  /\ TasksRun /\ task[i].pc = "createToken"
  /\ \E ok \in BOOLEAN :
       LET r == IF task[i].inMem
                THEN [s |-> stores, d |-> db, l |-> dbLog, threw |-> FALSE]
                ELSE StoreSave(stores, db, dbLog, "PumpToken", Mint, CreatedToken, ok)
       IN  /\ Commit(r)
           /\ SetPc(i, IF r.threw THEN "rejected" ELSE "createCurve")
  /\ UNCHANGED <<batch, hpc, next, txLogCounter, flushed, db0, svars, pvars, lvars, xvars>>

\* curveService.createBondingCurve({realSolReserves: 0n,
\*   realTokenReserves: curveParams.initialRealTokenReserves, ...}):
\* an existing curve gets the same fields assigned, a missing one is created.
CreateBondingCurve(i) ==
  /\ TasksRun /\ task[i].pc = "createCurve"
  /\ \E ok \in BOOLEAN :
       LET r == StoreSave(stores, db, dbLog, "BondingCurve", Curve, CurveRec(0, 0), ok)
       IN  /\ Commit(r)
           /\ SetPc(i, IF r.threw THEN "rejected" ELSE "createdEvent")
  /\ UNCHANGED <<batch, hpc, next, txLogCounter, flushed, db0, svars, pvars, lvars, xvars>>

\* getToken(mint) then createTokenCreatedEvent({id: `${txSignature}-${slot}`})
CreatedEvent(i) ==
  /\ TasksRun /\ task[i].pc = "createdEvent"
  /\ \E ok \in BOOLEAN :
       IF MapHas(stores["PumpToken"], Mint)
       THEN LET r == StoreSave(stores, db, dbLog, "TokenCreated", <<TxSig, Slot>>,
                               CreatedRec(i), ok)
            IN  Commit(r) /\ SetPc(i, IF r.threw THEN "rejected" ELSE "done")
       ELSE IF MapHas(db["PumpToken"], Mint)
       THEN LET r == StoreSave(stores, db, dbLog, "PumpToken", Mint,
                               db["PumpToken"][Mint], ok)
            IN  Commit(r) /\ SetPc(i, IF r.threw THEN "rejected" ELSE "createdEvent")
       ELSE UNCHANGED <<stores, db, dbLog>> /\ SetPc(i, "done")
  /\ UNCHANGED <<batch, hpc, next, txLogCounter, flushed, db0, svars, pvars, lvars, xvars>>

\* ------------------------------------------------- TradeService (buy/sell)
\* tokenService.getToken(mint, true) after `await this.tokenStore.find(mint)`:
\* a miss falls back to ctx.store.get and then to a placeholder; either is
\* saved in the token store.  processTradeInstruction swallows every error.
GetToken(i) ==
  /\ TasksRun /\ task[i].pc = "getToken"
  /\ \E ok \in BOOLEAN :
       LET tok == IF MapHas(db["PumpToken"], Mint)
                  THEN db["PumpToken"][Mint] ELSE PlaceholderToken
           r == IF task[i].inMem
                THEN [s |-> stores, d |-> db, l |-> dbLog, threw |-> FALSE]
                ELSE StoreSave(stores, db, dbLog, "PumpToken", Mint, tok, ok)
       IN  /\ Commit(r)
           /\ SetPc(i, IF r.threw THEN "done" ELSE "createTrade")
  /\ UNCHANGED <<batch, hpc, next, txLogCounter, flushed, db0, svars, pvars, lvars, xvars>>

\* createTrade({id: `${txSignature}-${this.nextIndex(txSignature)}`, ...})
CreateTrade(i) ==
  /\ TasksRun /\ task[i].pc = "createTrade"
  /\ txLogCounter' = txLogCounter + 1
  /\ \E ok \in BOOLEAN :
       LET r == StoreSave(stores, db, dbLog, "Trade", <<TxSig, txLogCounter>>,
                          TradeRec(i, batch[i]), ok)
       IN  /\ Commit(r)
           /\ SetPc(i, IF r.threw THEN "done" ELSE "getCurve")
  /\ UNCHANGED <<batch, hpc, next, flushed, db0, svars, pvars, lvars, xvars>>

\* bondingCurve = await this.curveService.getBondingCurve(id)
GetBondingCurve(i) ==
  /\ TasksRun /\ task[i].pc = "getCurve"
  /\ task' = [task EXCEPT ![i].pc = "applyTrade",
                          ![i].inMem = MapHas(stores["BondingCurve"], Curve)]
  /\ UNCHANGED <<batch, hpc, next, stores, txLogCounter, db, dbLog, flushed, db0, svars, pvars, lvars, xvars>>

Max0(x) == IF x < 0 THEN 0 ELSE x

\* the reserves processTradeInstruction computes from the curve it holds
NewRealSolUnclamped(c, ins) == IF ins.isBuy THEN c.realSol + ins.sol ELSE c.realSol - ins.sol
NewRealSol(c, ins) == Max0(IF ins.isBuy THEN c.realSol + ins.sol ELSE c.realSol - ins.sol)
NewRealTok(c, ins) == Max0(IF ins.isBuy THEN c.realTok - ins.tok ELSE c.realTok + ins.tok)

\* the curve processTradeInstruction makes up when it found none
SynthCurve(ins) == IF ins.isBuy THEN CurveRec(ins.sol, 0 - ins.tok)
                   ELSE CurveRec(0 - ins.sol, ins.tok)

\* if (bondingCurve) { read its reserves, apply the delta, clamp, and call
\* updateBondingCurve with the absolute values } else { new BondingCurve }
ApplyTrade(i) ==
  /\ TasksRun /\ task[i].pc = "applyTrade"
  /\ \E ok \in BOOLEAN :
       IF task[i].inMem /\ MapHas(stores["BondingCurve"], Curve)
       THEN /\ task' = [task EXCEPT
                  ![i].pc = "updateCurve",
                  ![i].newSol = NewRealSol(stores["BondingCurve"][Curve], batch[i]),
                  ![i].newTok = NewRealTok(stores["BondingCurve"][Curve], batch[i])]
            /\ UNCHANGED <<stores, db, dbLog>>
       ELSE LET r == StoreSave(stores, db, dbLog, "BondingCurve", Curve,
                               SynthCurve(batch[i]), ok)
            IN  Commit(r) /\ SetPc(i, "done")
  /\ UNCHANGED <<batch, hpc, next, txLogCounter, flushed, db0, svars, pvars, lvars, xvars>>

\* updateBondingCurve after `await this.store.get(BondingCurve, curveId)`:
\* if (!curve) return undefined; otherwise assign the params to the curve
UpdateBondingCurve(i) ==
  /\ TasksRun /\ task[i].pc = "updateCurve"
  /\ stores' = IF MapHas(stores["BondingCurve"], Curve)
               THEN [stores EXCEPT !["BondingCurve"][Curve] =
                        CurveRec(task[i].newSol, task[i].newTok)]
               ELSE stores
  /\ SetPc(i, "done")
  /\ UNCHANGED <<batch, hpc, next, txLogCounter, db, dbLog, flushed, db0, svars, pvars, lvars, xvars>>

\* ------------------------------------------------- end-of-batch flushes
\* await tokenService.flush()  (tokenStore, createdStore, completedStore);
\* await curveService.flush(); await tradeService.flush();
\* await globalService.flush()
FlushSteps == << <<"flushToken", "PumpToken">>, <<"flushCreated", "TokenCreated">>,
                 <<"flushCompleted", "TokenCompleted">>, <<"flushCurve", "BondingCurve">>,
                 <<"flushTrade", "Trade">>, <<"flushGlobal", "GlobalConfig">> >>

\* MemoryStore.flush: entities = getAll(); if any, upsert them all in one
\* call.  A failing upsert throws out of flush and out of handle.
Flush ==
  \E n \in 1..Len(FlushSteps), ok \in BOOLEAN :
    LET kind == FlushSteps[n][2]
        m == stores[kind]
        after == IF n < Len(FlushSteps) THEN FlushSteps[n + 1][1] ELSE "done"
    IN  /\ hpc = FlushSteps[n][1]
        /\ IF m = EmptyMap
           THEN /\ hpc' = after
                /\ flushed' = flushed \cup {kind}
                /\ UNCHANGED <<db, dbLog>>
           ELSE /\ dbLog' = Append(dbLog, Call("upsert", kind, m, "flush", ok))
                /\ db' = IF ok THEN [db EXCEPT ![kind] = DbWrite(@, m)] ELSE db
                /\ hpc' = IF ok THEN after ELSE "failed"
                /\ flushed' = IF ok THEN flushed \cup {kind} ELSE flushed
        /\ UNCHANGED <<batch, next, task, stores, txLogCounter, db0, svars, pvars, lvars, xvars>>

Next ==
  \/ Prefetch
  \/ Dispatch
  \/ DispatchEnd
  \/ AwaitRejected
  \/ AwaitFulfilled
  \/ \E i \in 1..Len(batch) : SetGlobal(i)
  \/ \E i \in 1..Len(batch) : CreateToken(i)
  \/ \E i \in 1..Len(batch) : CreateBondingCurve(i)
  \/ \E i \in 1..Len(batch) : CreatedEvent(i)
  \/ \E i \in 1..Len(batch) : GetToken(i)
  \/ \E i \in 1..Len(batch) : CreateTrade(i)
  \/ \E i \in 1..Len(batch) : GetBondingCurve(i)
  \/ \E i \in 1..Len(batch) : ApplyTrade(i)
  \/ \E i \in 1..Len(batch) : UpdateBondingCurve(i)
  \/ Flush

(***************************************************************************)
(* The insert/update-list MemoryStore (src/unnamed/part_003, second        *)
(* MemoryStore class): insertList is pending_new, updateList is            *)
(* pending_existing.  A JavaScript Map keeps its entries in insertion      *)
(* order, so each list is a sequence of <<id, value>> entries.             *)
(***************************************************************************)
\* ------------------------------------------------------------------ bounds
\* find and save calls made on the store before its flush
MaxCalls == 3

Ids == {"a", "b"}
\* field values an entity can be saved with; the durable store starts
\* with the value DbVal for the ids it knows
Vals == {"v1", "v2"}
DbVal == "v0"
Callers == {1, 2}

Keys(L) == { L[n][1] : n \in 1..Len(L) }

ListHas(L, k) == k \in Keys(L)

ListGet(L, k) == L[CHOOSE n \in 1..Len(L) : L[n][1] = k][2]

\* a Map whose set never looks for the key: every call adds an entry
ListSetAppends(L, k, v) == Append(L, <<k, v>>)

\* Map.prototype.set: replace the value of an existing key in place,
\* append a new key
ListSet(L, k, v) ==
  IF ListHas(L, k)
  THEN [n \in 1..Len(L) |-> IF L[n][1] = k THEN <<k, v>> ELSE L[n]]
  ELSE Append(L, <<k, v>>)

Count(L, k) == Cardinality({ n \in 1..Len(L) : L[n][1] = k })


NoId == "-"
NoRet == [op |-> "none", id |-> NoId, found |-> FALSE, lookup |-> "no"]
FlushAt(pc, items, idx) == [pc |-> pc, items |-> items, idx |-> idx]

SCall(op, recs, ok, by) == [op |-> op, recs |-> recs, ok |-> ok, by |-> by]

\* the store as it is before it is used (and in the specifications that
\* do not use it)
SIdle(pc) ==
  /\ insertList = << >> /\ updateList = << >>
  /\ sfind = [c \in Callers |-> NoId]
  /\ sflush = FlushAt(pc, << >>, 0)
  /\ slog = << >> /\ sret = NoRet /\ shist = << >>

SInit ==
  /\ SIdle("idle")
  /\ sdb \in { [x \in known |-> DbVal] : known \in SUBSET Ids }
  /\ sbad \in SUBSET Ids

NCalls == Len(shist)

InBatch == sflush.pc = "idle"

\* find(id), steps 1 and 2: the entity is in updateList or in insertList
FindCached(c, id) ==
  /\ InBatch /\ sfind[c] = NoId /\ NCalls < MaxCalls
  /\ ListHas(updateList, id) \/ ListHas(insertList, id)
  /\ sret' = [op |-> "find", id |-> id, found |-> TRUE, lookup |-> "no"]
  /\ shist' = Append(shist, [op |-> "find", id |-> id, val |-> DbVal, inUpdate |-> FALSE])
  /\ UNCHANGED <<insertList, updateList, sdb, sbad, sfind, sflush, slog, hvars, pvars, lvars, xvars>>

\* find(id), step 3: not in memory; the call suspends in
\* `await this.manager.ctx.store.get(this.name, id)`
FindLookup(c, id) ==
  /\ InBatch /\ sfind[c] = NoId /\ NCalls < MaxCalls
  /\ ~ListHas(updateList, id) /\ ~ListHas(insertList, id)
  /\ sfind' = [sfind EXCEPT ![c] = id]
  /\ slog' = Append(slog, SCall("get", <<id>>, TRUE, "find"))
  /\ shist' = Append(shist, [op |-> "find", id |-> id, val |-> DbVal, inUpdate |-> FALSE])
  /\ sret' = NoRet
  /\ UNCHANGED <<insertList, updateList, sdb, sbad, sflush, hvars, pvars, lvars, xvars>>

\* the lookup answers with the entity: updateList.set(id, dbEntity)
FindFound(c) ==
  /\ InBatch /\ sfind[c] # NoId /\ sfind[c] \in DOMAIN sdb
  /\ updateList' = ListSet(updateList, sfind[c], sdb[sfind[c]])
  /\ sfind' = [sfind EXCEPT ![c] = NoId]
  /\ sret' = [op |-> "find", id |-> sfind[c], found |-> TRUE, lookup |-> "hit"]
  /\ UNCHANGED <<insertList, sdb, sbad, sflush, slog, shist, hvars, pvars, lvars, xvars>>

\* the lookup answers with nothing, or throws (caught and logged):
\* find returns undefined
FindAbsent(c) ==
  /\ InBatch /\ sfind[c] # NoId
  /\ \E thrown \in BOOLEAN :
       /\ ~thrown => sfind[c] \notin DOMAIN sdb
       /\ sret' = [op |-> "find", id |-> sfind[c], found |-> FALSE,
                   lookup |-> IF thrown THEN "error" ELSE "miss"]
  /\ sfind' = [sfind EXCEPT ![c] = NoId]
  /\ UNCHANGED <<insertList, updateList, sdb, sbad, sflush, slog, shist, hvars, pvars, lvars, xvars>>

\* save(entity)
Save(id, v) ==
  /\ InBatch /\ NCalls < MaxCalls
  /\ IF ListHas(updateList, id)
     THEN updateList' = ListSet(updateList, id, v) /\ UNCHANGED insertList
     ELSE insertList' = ListSet(insertList, id, v) /\ UNCHANGED updateList
  /\ shist' = Append(shist, [op |-> "save", id |-> id, val |-> v,
                             inUpdate |-> ListHas(updateList, id)])
  /\ sret' = [op |-> "save", id |-> id, found |-> FALSE, lookup |-> "no"]
  /\ UNCHANGED <<sdb, sbad, sfind, sflush, slog, hvars, pvars, lvars, xvars>>

Values(L) == [n \in 1..Len(L) |-> L[n]]

\* ctx.store.upsert / ctx.store.save of an array or of one entity: the
\* durable store takes all of the records or, if it rejects one, none
Accepts(recs) == \A n \in 1..Len(recs) : recs[n][1] \notin sbad

RECURSIVE Written(_, _)
Written(T, recs) ==
  IF recs = << >> THEN T
  ELSE Written([x \in DOMAIN T \cup {recs[1][1]} |->
                  IF x = recs[1][1] THEN recs[1][2] ELSE T[x]], Tail(recs))

Issue(op, recs) ==
  /\ slog' = Append(slog, SCall(op, recs, Accepts(recs), "flush"))
  /\ sdb' = IF Accepts(recs) THEN Written(sdb, recs) ELSE sdb

\* flush() is called once every task of the batch has settled
FlushStart ==
  /\ sflush.pc = "idle"
  /\ \A c \in Callers : sfind[c] = NoId
  /\ sflush' = FlushAt("upserts", << >>, 0)
  /\ sret' = NoRet
  /\ UNCHANGED <<insertList, updateList, sdb, sbad, sfind, slog, shist, hvars, pvars, lvars, xvars>>

\* const upserts = Array.from(insertList.values()); the bulk upsert
FlushUpsertBulk ==
  /\ sflush.pc = "upserts"
  /\ LET upserts == Values(insertList)
     IN  IF upserts = << >>
         THEN /\ sflush' = FlushAt("updates", << >>, 0)
              /\ UNCHANGED <<insertList, sdb, slog>>
         ELSE /\ Issue("upsert", upserts)
              /\ IF Accepts(upserts)
                 THEN /\ insertList' = << >>
                      /\ sflush' = FlushAt("updates", << >>, 0)
                 ELSE /\ sflush' = FlushAt("upsertEach", upserts, 1)
                      /\ UNCHANGED insertList
  /\ UNCHANGED <<updateList, sbad, sfind, sret, shist, hvars, pvars, lvars, xvars>>

\* the fallback loop: one upsert per entity, a failure is logged and skipped
FlushUpsertEach ==
  /\ sflush.pc = "upsertEach"
  /\ Issue("upsert", <<sflush.items[sflush.idx]>>)
  /\ IF sflush.idx < Len(sflush.items)
     THEN /\ sflush' = [sflush EXCEPT !.idx = @ + 1]
          /\ UNCHANGED insertList
     ELSE /\ insertList' = << >>
          /\ sflush' = FlushAt("updates", << >>, 0)
  /\ UNCHANGED <<updateList, sbad, sfind, sret, shist, hvars, pvars, lvars, xvars>>

\* const updates = Array.from(updateList.values()); the bulk save
FlushSaveBulk ==
  /\ sflush.pc = "updates"
  /\ LET updates == Values(updateList)
     IN  IF updates = << >>
         THEN /\ sflush' = FlushAt("done", << >>, 0)
              /\ UNCHANGED <<updateList, sdb, slog>>
         ELSE /\ Issue("save", updates)
              /\ IF Accepts(updates)
                 THEN /\ updateList' = << >>
                      /\ sflush' = FlushAt("done", << >>, 0)
                 ELSE /\ sflush' = FlushAt("saveEach", updates, 1)
                      /\ UNCHANGED updateList
  /\ UNCHANGED <<insertList, sbad, sfind, sret, shist, hvars, pvars, lvars, xvars>>

FlushSaveEach ==
  /\ sflush.pc = "saveEach"
  /\ Issue("save", <<sflush.items[sflush.idx]>>)
  /\ IF sflush.idx < Len(sflush.items)
     THEN /\ sflush' = [sflush EXCEPT !.idx = @ + 1]
          /\ UNCHANGED updateList
     ELSE /\ updateList' = << >>
          /\ sflush' = FlushAt("done", << >>, 0)
  /\ UNCHANGED <<insertList, sbad, sfind, sret, shist, hvars, pvars, lvars, xvars>>

StoreNext ==
  \/ \E c \in Callers, id \in Ids : FindCached(c, id)
  \/ \E c \in Callers, id \in Ids : FindLookup(c, id)
  \/ \E c \in Callers : FindFound(c)
  \/ \E c \in Callers : FindAbsent(c)
  \/ \E id \in Ids, v \in Vals : Save(id, v)
  \/ FlushStart
  \/ FlushUpsertBulk
  \/ FlushUpsertEach
  \/ FlushSaveBulk
  \/ FlushSaveEach

(***************************************************************************)
(* The single-map MemoryStore with an event list                           *)
(* (src/src/store/memory.store.ts, second MemoryStore class).  The         *)
(* services load a record the map misses from the durable store and hand   *)
(* it to save(), so the map holds loaded and new records alike.            *)
(***************************************************************************)

PIdle(pc) ==
  /\ pmap = << >> /\ pevents = << >>
  /\ ppc = pc /\ plog = << >> /\ pret = NoRet /\ pcalls = 0

PInit ==
  /\ PIdle("idle")
  /\ isEventType \in BOOLEAN
  /\ pdb \in { [x \in known |-> DbVal] : known \in SUBSET Ids }

PReturn(op, id, found) == [op |-> op, id |-> id, found |-> found, lookup |-> "no"]

PFind(id) ==
  /\ ppc = "idle" /\ pcalls < MaxCalls
  /\ pret' = PReturn("find", id, ListHas(pmap, id))
  /\ pcalls' = pcalls + 1
  /\ UNCHANGED <<pmap, pevents, isEventType, pdb, ppc, plog, hvars, svars, lvars, xvars>>

PSave(id, v) ==
  /\ ppc = "idle" /\ pcalls < MaxCalls
  /\ IF isEventType
     THEN pevents' = ListSet(pevents, id, v) /\ UNCHANGED pmap
     ELSE pmap' = ListSet(pmap, id, v) /\ UNCHANGED pevents
  /\ pret' = PReturn("save", id, FALSE)
  /\ pcalls' = pcalls + 1
  /\ UNCHANGED <<isEventType, pdb, ppc, plog, hvars, svars, lvars, xvars>>

PUpdate(id, v) ==
  /\ ppc = "idle" /\ pcalls < MaxCalls
  /\ IF isEventType
     THEN pret' = PReturn("updateThrew", id, FALSE) /\ UNCHANGED pmap
     ELSE pret' = PReturn("update", id, FALSE) /\ pmap' = ListSet(pmap, id, v)
  /\ pcalls' = pcalls + 1
  /\ UNCHANGED <<pevents, isEventType, pdb, ppc, plog, hvars, svars, lvars, xvars>>

PGetAll == IF isEventType THEN pevents ELSE pmap

\* flush(): entities = getAll(); await ctx.store.save(entities)
PFlush ==
  /\ ppc = "idle"
  /\ pret' = NoRet
  /\ IF PGetAll = << >>
     THEN ppc' = "done" /\ UNCHANGED plog
     ELSE /\ ppc' = "flushing"
          /\ plog' = Append(plog, [op |-> "save", recs |-> PGetAll, by |-> "flush",
                                   fresh |-> Keys(PGetAll) \ DOMAIN pdb])
  /\ UNCHANGED <<pmap, pevents, isEventType, pdb, pcalls, hvars, svars, lvars, xvars>>

\* the save resolves (the event list is emptied) or rejects (flush throws)
PFlushed ==
  /\ ppc = "flushing"
  /\ \E ok \in BOOLEAN :
       IF ok
       THEN /\ pdb' = Written(pdb, PGetAll)
            /\ pevents' = << >>
            /\ ppc' = "done"
       ELSE ppc' = "threw" /\ UNCHANGED <<pdb, pevents>>
  /\ UNCHANGED <<pmap, isEventType, plog, pret, pcalls, hvars, svars, lvars, xvars>>

PlainNext ==
  \/ \E id \in Ids : PFind(id)
  \/ \E id \in Ids, v \in Vals : PSave(id, v)
  \/ \E id \in Ids, v \in Vals : PUpdate(id, v)
  \/ PFlush
  \/ PFlushed

(***************************************************************************)
(* The serial handler (src/unnamed/part_000): every handler is awaited     *)
(* before the next instruction is dispatched, so a handler is one step.    *)
(* The services keep their entities in the MemoryStore with a batch list   *)
(* (src/unnamed/part_004); a StoreManager lives for one batch.             *)
(***************************************************************************)
\* ------------------------------------------------------------------ bounds
\* Longest instruction sequence of the serial handler.
MaxSeq == 3
\* Size of the batch list at which saveForBatchLoading reconciles it with
\* the durable store.  The source uses 500; the model scales it down.
BatchLimit == 2

Mints == {"M1", "M2"}

\* the bonding-curve account of a mint
CurveOf(mint) == IF mint = "M1" THEN "C1" ELSE "C2"

\* what String(entity) gives for an entity object
ObjectString == "[object Object]"

\* BondingCurve.token as the code can hold it: absent (null, or a relation
\* that was not loaded), the mint as a string, or a PumpToken object
NoToken == [form |-> "none", id |-> NoId]
TokenString(mint) == [form |-> "string", id |-> mint]
TokenObject(mint) == [form |-> "object", id |-> mint]

\* virtual reserves carried by a trade event
EventVirtualSol(ins) == IF ins.isBuy THEN 5 ELSE 3
EventVirtualTok(ins) == IF ins.isBuy THEN 4 ELSE 6

BondingCurve(rSol, rTok, vSol, vTok, supply, fee, token) ==
  [realSol |-> rSol, realTok |-> rTok, vSol |-> vSol, vTok |-> vTok,
   supply |-> supply, fee |-> fee, token |-> token]

\* one instruction of the serial handler
\* an inner instruction of a buy/sell instruction that carries the trade
\* event discriminator: `auth` says that its program id and first account
\* are the program and the event authority, `decodes` that
\* tradeEventInstruction.decode accepts it
InnerEvent   == [auth |-> TRUE,  decodes |-> TRUE]
InnerGarbled == [auth |-> TRUE,  decodes |-> FALSE]
InnerAlien   == [auth |-> FALSE, decodes |-> FALSE]

LInstr(kind, mint, isBuy) ==
  [kind |-> kind, mint |-> mint, curve |-> CurveOf(mint), isBuy |-> isBuy,
   sol |-> 1, tok |-> 1, inner |-> <<InnerEvent>>]

WithInner(ins, inner) == [ins EXCEPT !.inner = inner]

LCatalogue ==
  { LInstr("create", "M1", FALSE), LInstr("create", "M2", FALSE),
    LInstr("trade", "M1", TRUE),   LInstr("trade", "M1", FALSE),
    WithInner(LInstr("trade", "M2", TRUE), <<InnerEvent, InnerGarbled>>),
    WithInner(LInstr("trade", "M1", TRUE), <<InnerGarbled>>),
    WithInner(LInstr("trade", "M1", FALSE), <<InnerAlien>>),
    LInstr("withdraw", "M1", FALSE), LInstr("withdraw", "M2", FALSE) }

\* memory of the stores of one StoreManager, the batch list of the curve
\* store, TradeService.txLogCounter, and the durable store
Ledger(mem, bl, ctr, d) == [mem |-> mem, bl |-> bl, ctr |-> ctr, db |-> d]

NoMem == [k \in Kinds |-> EmptyMap]

\* MemoryStore.save of one entity: map.set, and past the size limit the
\* map is written to the durable store and cleared
Put(L, kind, id, rec) ==
  LET r == StoreSave(L.mem, L.db, << >>, kind, id, rec, TRUE)
  IN  [L EXCEPT !.mem = r.s, !.db = r.d]

Has(L, kind, id) == MapHas(L.mem[kind], id)

\* TokenService.getToken(mint, createIfMissing): memory, then the durable
\* store (the loaded token is saved to memory), then a placeholder
LGetToken(L, mint, createIfMissing) ==
  IF Has(L, "PumpToken", mint) THEN L
  ELSE IF MapHas(L.db["PumpToken"], mint)
       THEN Put(L, "PumpToken", mint, L.db["PumpToken"][mint])
  ELSE IF createIfMissing THEN Put(L, "PumpToken", mint, PlaceholderToken)
  ELSE L

\* TokenService.createToken: a token found in memory is returned as it is
LCreateToken(L, mint) ==
  IF Has(L, "PumpToken", mint) THEN L ELSE Put(L, "PumpToken", mint, CreatedToken)

\* TokenService.updateToken(tokenId, {status}): if (!token) return undefined
LUpdateToken(L, tokenId, status) ==
  IF Has(L, "PumpToken", tokenId)
  THEN Put(L, "PumpToken", tokenId, [L.mem["PumpToken"][tokenId] EXCEPT !.status = status])
  ELSE L

\* store.get(BondingCurve, id): the cached curve, else the stored one, which
\* is kept in the cache; its token relation is not loaded
LGetBondingCurve(L, id) ==
  IF Has(L, "BondingCurve", id) \/ ~MapHas(L.db["BondingCurve"], id) THEN L
  ELSE [L EXCEPT !.mem["BondingCurve"] =
           MapSet(@, id, [L.db["BondingCurve"][id] EXCEPT !.token = NoToken])]

\* the curve processCreateInstruction asks for: default curve parameters,
\* realSolReserves 0n, feeBasisPoints 30n
CreateParams == [realSol |-> 0, realTok |-> 0, vSol |-> 1000000, vTok |-> 1000000,
                 supply |-> 1000000000, fee |-> 30]

\* BondingCurveService.createBondingCurve({id, token: mint, ...}): an
\* existing curve gets the parameters, and the mint string as its token
\* only if it has none; a new curve gets the PumpToken that getToken returns
LCreateBondingCurve(L, id, mint) ==
  LET G == LGetBondingCurve(L, id)
      p == CreateParams
  IN  IF Has(G, "BondingCurve", id)
      THEN LET e == G.mem["BondingCurve"][id]
           IN  [G EXCEPT !.mem["BondingCurve"][id] =
                  BondingCurve(p.realSol, p.realTok, p.vSol, p.vTok, p.supply, p.fee,
                               IF e.token = NoToken THEN TokenString(mint) ELSE e.token)]
      ELSE LET T == LGetToken(G, mint, TRUE)
           IN  [T EXCEPT !.mem["BondingCurve"] =
                  MapSet(@, id, BondingCurve(p.realSol, p.realTok, p.vSol, p.vTok,
                                             p.supply, p.fee, TokenObject(mint)))]

\* BondingCurveService.updateBondingCurve(curveId, params): if (!curve)
\* return undefined; only the fields present in params are assigned
LUpdateBondingCurveAll(L, id, params) ==
  LET G == LGetBondingCurve(L, id)
  IN  IF ~Has(G, "BondingCurve", id) THEN G
      ELSE LET c == G.mem["BondingCurve"][id]
           IN  [G EXCEPT !.mem["BondingCurve"][id] =
                  [f \in DOMAIN c |-> IF f \in DOMAIN params THEN params[f]
                                      ELSE IF f = "token" THEN c.token ELSE 0]]
LUpdateBondingCurve(L, id, params) ==
  LET G == LGetBondingCurve(L, id)
  IN  IF ~Has(G, "BondingCurve", id) THEN G
      ELSE LET c == G.mem["BondingCurve"][id]
           IN  [G EXCEPT !.mem["BondingCurve"][id] =
                  [f \in DOMAIN c |-> IF f \in DOMAIN params THEN params[f] ELSE c[f]]]

\* MemoryStore.saveForBatchLoading(entity): batchList.set; once the list
\* holds BatchLimit curves, those unknown to the durable store are put in
\* the map, for the known ones the reserves are added up on the entity read
\* from the durable store but the map receives the listed entity
\* (this.map.set(entity.id, updatedEntity)); then the list is cleared
SaveForBatchLoading(L, id, rec) ==
  LET b == MapSet(L.bl, id, rec)
  IN  IF Cardinality(DOMAIN b) >= BatchLimit
      THEN [L EXCEPT !.bl = EmptyMap,
                     !.mem["BondingCurve"] =
                        [x \in (DOMAIN @) \cup (DOMAIN b) |->
                           IF x \in DOMAIN b THEN b[x] ELSE @[x]]]
      ELSE [L EXCEPT !.bl = b]

\* ------------------------------------------------------------- handlers
\* the inner instructions processTradeInstruction keeps: program id, first
\* account and discriminator match
EventInners(ins) == SelectSeq(ins.inner, LAMBDA f : f.auth)

\* the trade event processTradeInstruction ends up with: every kept inner
\* instruction is decoded, a failure is ignored, the last success stays
TradeEventOfFirstInner(ins) ==
  IF Len(ins.inner) = 0 THEN "none" ELSE "event"
TradeEventOf(ins) ==
  IF Len(EventInners(ins)) = 0 THEN "none"
  ELSE IF \E k \in 1..Len(EventInners(ins)) : EventInners(ins)[k].decodes THEN "event"
  ELSE "none"

LTradeRec(ins) == [token |-> ins.mint, isBuy |-> ins.isBuy, sol |-> ins.sol, tok |-> ins.tok]

\* TradeService.processTradeInstruction: getToken(mint, true), createTrade
\* with id `${txSignature}-${nextIndex}`, then the curve: an existing one
\* is updated with the clamped reserves and the event's virtual reserves,
\* a missing one is made up and handed to saveForBatchLoading
LProcessTrade(L, ins, txSignature) ==
  LET T == LGetToken(L, ins.mint, TRUE)
      R == [Put(T, "Trade", <<txSignature, T.ctr[txSignature]>>, LTradeRec(ins))
              EXCEPT !.ctr[txSignature] = @ + 1]
      G == LGetBondingCurve(R, ins.curve)
  IN  IF Has(G, "BondingCurve", ins.curve)
      THEN LET c == G.mem["BondingCurve"][ins.curve]
           IN  LUpdateBondingCurve(G, ins.curve,
                 [realSol |-> NewRealSol(c, ins), realTok |-> NewRealTok(c, ins),
                  vSol |-> EventVirtualSol(ins), vTok |-> EventVirtualTok(ins)])
      ELSE SaveForBatchLoading(G, ins.curve,
             BondingCurve(SynthCurve(ins).realSol, SynthCurve(ins).realTok,
                          EventVirtualSol(ins), EventVirtualTok(ins),
                          1000000000, 30, NoToken))

\* TradeService.processTradeInstruction from its start: without a decoded
\* trade event it returns before it touches a store or the counter
LProcessTradeInstruction(L, ins, txSignature) ==
  IF TradeEventOf(ins) = "none" THEN L ELSE LProcessTrade(L, ins, txSignature)

\* TokenService.processCreateInstruction: createToken, createBondingCurve
\* with the mint string as token, getToken(mint) and, if it returned a
\* token, createTokenCreatedEvent with id `${txSignature}-${slot}`
LProcessCreate(L, ins, txSignature, slot) ==
  LET T == LCreateToken(L, ins.mint)
      C == LCreateBondingCurve(T, ins.curve, ins.mint)
      known == Has(C, "PumpToken", ins.mint) \/ MapHas(C.db["PumpToken"], ins.mint)
      G == LGetToken(C, ins.mint, FALSE)
  IN  IF known THEN Put(G, "TokenCreated", <<txSignature, slot>>, [token |-> ins.mint])
      ELSE G

\* the id processWithdrawInstruction derives from curve.token: a string is
\* taken as it is, an entity object is stringified, none gives the curve id
TokenIdOf(token, bondingCurveId) ==
  IF token.form = "none" THEN bondingCurveId
  ELSE IF token.form = "string" THEN token.id
  ELSE ObjectString

\* BondingCurveService.processWithdrawInstruction: the curve (a zero
\* placeholder is inserted if there is none), updateBondingCurve with
\* realSolReserves and realTokenReserves 0n, getToken(tokenId, true),
\* updateToken(status completed), createTokenCompletedEvent
LProcessWithdraw(L, ins, txSignature, slot) ==
  LET G == LGetBondingCurve(L, ins.curve)
      I == IF Has(G, "BondingCurve", ins.curve) THEN G
           ELSE [G EXCEPT !.mem["BondingCurve"] =
                    MapSet(@, ins.curve, BondingCurve(0, 0, 0, 0, 0, 0, NoToken))]
      tokenId == TokenIdOf(I.mem["BondingCurve"][ins.curve].token, ins.curve)
      U == LUpdateBondingCurve(I, ins.curve, [realSol |-> 0, realTok |-> 0])
      T == LUpdateToken(LGetToken(U, tokenId, TRUE), tokenId, "completed")
  IN  Put(T, "TokenCompleted", <<txSignature, slot>>, [token |-> tokenId])

\* the flushes at the end of handle: every store's map is written; the
\* batch list of the curve store is not part of getAll()
LFlush(L) == [L EXCEPT !.db = [k \in Kinds |-> DbWrite(L.db[k], L.mem[k])]]

Blocks == {"h1", "h2"}

\* the next batch starts with a new StoreManager and new services
NewBatch(L) == Ledger(NoMem, EmptyMap, [h \in Blocks |-> 0], L.db)

\* ---------------------------------------------------------------- actions
\* the durable store before the run: empty, or token M1 with its curve C1
SeededDb ==
  [k \in Kinds |->
     IF k = "PumpToken" THEN MapSet(EmptyMap, "M1", CreatedToken)
     ELSE IF k = "BondingCurve"
          THEN MapSet(EmptyMap, "C1", BondingCurve(1, 1, 1000000, 1000000, 1000000000,
                                                   30, TokenString("M1")))
     ELSE EmptyMap]

LSeqs == UNION { [1..n -> LCatalogue] : n \in 1..MaxSeq }

\* the instructions of the first batch are in block h1, the others in h2
HashOfOneSignature(i) == "h1"
HashOf(i) == IF i <= cut THEN "h1" ELSE "h2"
SlotOf(i) == IF i <= cut THEN "s7" ELSE "s8"

LInit ==
  /\ seq \in LSeqs
  /\ cut \in 0..Len(seq)
  /\ pos = 1
  /\ lpc = "first"
  /\ \E d \in {NoMem, SeededDb} :
       /\ one = Ledger(NoMem, EmptyMap, [h \in Blocks |-> 0], d)
       /\ two = one
       /\ prev = [one |-> one, two |-> two]

\* the instruction at pos is due: in the first batch up to the cut
Due(kind) ==
  /\ \/ lpc = "first" /\ pos <= cut
     \/ lpc = "second" /\ pos <= Len(seq)
  /\ seq[pos].kind = kind

Ran(o, t) ==
  /\ one' = o /\ two' = t
  /\ prev' = [one |-> one, two |-> two]
  /\ pos' = pos + 1
  /\ UNCHANGED <<seq, cut, lpc, hvars, svars, pvars, xvars>>

ProcessCreate ==
  /\ Due("create")
  /\ Ran(LProcessCreate(one, seq[pos], HashOf(pos), SlotOf(pos)),
         LProcessCreate(two, seq[pos], HashOf(pos), SlotOf(pos)))

ProcessTrade ==
  /\ Due("trade")
  /\ Ran(LProcessTradeInstruction(one, seq[pos], HashOf(pos)),
         LProcessTradeInstruction(two, seq[pos], HashOf(pos)))

ProcessWithdraw ==
  /\ Due("withdraw")
  /\ Ran(LProcessWithdraw(one, seq[pos], HashOf(pos), SlotOf(pos)),
         LProcessWithdraw(two, seq[pos], HashOf(pos), SlotOf(pos)))

\* the two-batch run ends its first batch: flush, then a new StoreManager
BatchBoundary ==
  /\ lpc = "first" /\ pos = cut + 1
  /\ two' = NewBatch(LFlush(two))
  /\ lpc' = "second"
  /\ UNCHANGED <<seq, cut, pos, one, prev, hvars, svars, pvars, xvars>>

\* both runs end their last batch
FinalFlush ==
  /\ lpc = "second" /\ pos = Len(seq) + 1
  /\ one' = LFlush(one) /\ two' = LFlush(two)
  /\ lpc' = "done"
  /\ UNCHANGED <<seq, cut, pos, prev, hvars, svars, pvars, xvars>>

SerialNext ==
  \/ ProcessCreate
  \/ ProcessTrade
  \/ ProcessWithdraw
  \/ BatchBoundary
  \/ FinalFlush

(***************************************************************************)
(* Wallet statistics: the tail of TradeService.processTradeInstruction     *)
(* (createTrade, then walletStatsService.applyTrade when the service was   *)
(* given one) and WalletStatsService itself.  Both wallet stores are       *)
(* MemoryStores of one StoreManager; a StoreManager lives for one batch.   *)
(***************************************************************************)
\* ------------------------------------------------------------------ bounds
\* Most trades handled over all batches.
MaxTrades == 3

Wallets == {"w1", "w2"}

\* solAmount of a trade event, in lamports
Lamports == {0, 1, 2}

\* ------------------------------------------------------------- BigDecimal
\* A BigDecimal is held as the fraction num / den; the values the service
\* builds are the integer 0 and multiples of 1 / LAMPORTS_PER_SOL_DEC.
LAMPORTS_PER_SOL_DEC == 1000000000

ZERO_DEC == [num |-> 0, den |-> 1]

\* the value counted in units of 1 / LAMPORTS_PER_SOL_DEC
Units(a) == IF a.den = 1 THEN a.num * LAMPORTS_PER_SOL_DEC ELSE a.num

\* the BigDecimal of u units, in lowest form for zero
OfUnits(u) == IF u = 0 THEN ZERO_DEC ELSE [num |-> u, den |-> LAMPORTS_PER_SOL_DEC]

lamportsToSolDecimal(lamports) == OfUnits(lamports)

DecAdd(a, b) == OfUnits(Units(a) + Units(b))
DecSub(a, b) == OfUnits(Units(a) - Units(b))
DecNeg(a)    == OfUnits(0 - Units(a))
DecGt(a, b)  == Units(a) > Units(b)
DecLte(a, b) == Units(a) <= Units(b)
DecEq(a, b)  == Units(a) = Units(b)

\* ------------------------------------------------------ WalletStatsService
NewWalletTokenStats(amountSol) ==
  [volumeSol |-> ZERO_DEC, realisedPnlSol |-> ZERO_DEC, buySol |-> ZERO_DEC,
   sellSol |-> ZERO_DEC, firstTradeSol |-> amountSol, lastTradeSol |-> amountSol]

NewWalletStats ==
  [volumeSol |-> ZERO_DEC, realisedPnlSol |-> ZERO_DEC, buySol |-> ZERO_DEC,
   sellSol |-> ZERO_DEC, successTokensCount |-> 0, tokenCount |-> 0]

\* realisedDelta of a trade: subtracted on a buy, added on a sell
RealisedDeltaUnsigned(isBuy, amountSol) == amountSol

RealisedDelta(isBuy, amountSol) == IF isBuy THEN DecNeg(amountSol) ELSE amountSol

\* applyTrade on the two Maps; p is [wallet, token, isBuy, solAmount]
applyTrade(ws, wts, p) ==
  LET amountSol     == lamportsToSolDecimal(p.solAmount)
      volDelta      == amountSol
      realisedDelta == RealisedDelta(p.isBuy, amountSol)
      buyDelta      == IF p.isBuy THEN amountSol ELSE ZERO_DEC
      sellDelta     == IF p.isBuy THEN ZERO_DEC ELSE amountSol
      tokenStatsId  == <<p.wallet, p.token>>
      t0 == IF MapHas(wts, tokenStatsId) THEN wts[tokenStatsId]
                                         ELSE NewWalletTokenStats(amountSol)
      tokenStats == [t0 EXCEPT !.volumeSol      = DecAdd(@, volDelta),
                               !.realisedPnlSol = DecAdd(@, realisedDelta),
                               !.buySol         = DecAdd(@, buyDelta),
                               !.sellSol        = DecAdd(@, sellDelta),
                               !.lastTradeSol   = amountSol]
      w0 == IF MapHas(ws, p.wallet) THEN ws[p.wallet] ELSE NewWalletStats
      crossed == /\ DecGt(tokenStats.realisedPnlSol, ZERO_DEC)
                 /\ DecLte(DecSub(tokenStats.realisedPnlSol, realisedDelta), ZERO_DEC)
      first   == DecEq(tokenStats.volumeSol, volDelta)
      walletStats == [w0 EXCEPT !.volumeSol      = DecAdd(@, volDelta),
                                !.realisedPnlSol = DecAdd(@, realisedDelta),
                                !.buySol         = DecAdd(@, buyDelta),
                                !.sellSol        = DecAdd(@, sellDelta),
                                !.successTokensCount = IF crossed THEN @ + 1 ELSE @,
                                !.tokenCount         = IF first THEN @ + 1 ELSE @]
  IN  [wts |-> MapSet(wts, tokenStatsId, tokenStats),
       ws  |-> MapSet(ws, p.wallet, walletStats)]

\* ---------------------------------------------------------------- actions
WInit ==
  /\ wired \in BOOLEAN
  /\ wstats = EmptyMap /\ wtstats = EmptyMap
  /\ wdb = [WalletStats |-> EmptyMap, WalletTokenStats |-> EmptyMap]
  /\ wtraded = << >> /\ applied = << >> /\ wn = 0

notW == <<hvars, svars, pvars, lvars, gvars, cvars, dvars, kvars, tvars, evars, qvars, rvars>>

\* processTradeInstruction from createTrade on: the Trade record is made,
\* then the wallet statistics are updated if there is a service for them
TradeWalletStats ==
  /\ wn < MaxTrades
  /\ \E w \in Wallets, m \in Mints, isBuy \in BOOLEAN, sol \in Lamports :
       LET p == [wallet |-> w, token |-> m, isBuy |-> isBuy, solAmount |-> sol]
       IN  /\ wtraded' = Append(wtraded, p)
           /\ IF wired
                THEN /\ wstats'  = applyTrade(wstats, wtstats, p).ws
                     /\ wtstats' = applyTrade(wstats, wtstats, p).wts
                     /\ applied' = Append(applied, p)
                ELSE UNCHANGED <<wstats, wtstats, applied>>
  /\ wn' = wn + 1
  /\ UNCHANGED <<wired, wdb>>
  /\ UNCHANGED notW

\* end of the batch: WalletStatsService.flush, and the next batch gets a
\* new StoreManager and new services
WalletFlush ==
  /\ wtraded # << >>
  /\ wdb' = [WalletTokenStats |-> DbWrite(wdb.WalletTokenStats, wtstats),
             WalletStats      |-> DbWrite(wdb.WalletStats, wstats)]
  /\ wstats' = EmptyMap /\ wtstats' = EmptyMap
  /\ wtraded' = << >> /\ applied' = << >>
  /\ UNCHANGED <<wired, wn>>
  /\ UNCHANGED notW

WalletNext ==
  \/ TradeWalletStats
  \/ WalletFlush

(***************************************************************************)
(* GlobalService: initialize and setParams on the GlobalConfig singleton,  *)
(* and the curve parameters TokenService.processCreateInstruction takes    *)
(* from it.  handle builds a new GlobalService for every batch.  The       *)
(* repository holds the service twice: src/services/global.service.ts and  *)
(* the earlier src/unnamed/part_008.                                       *)
(***************************************************************************)
\* ------------------------------------------------------------------ bounds
\* Most instructions handled over all batches.
MaxGlobalSteps == 3

Users == {"u1", "u2"}

GlobalVariants == {"global.service", "part_008"}

\* fee basis points a setParams instruction can carry
FeeArgs == {30, 100}

\* the values of the private fields of a new GlobalService
DefaultCurveParameters ==
  [initialVirtualTokenReserves |-> 1000000, initialVirtualSolReserves |-> 1000000,
   initialRealTokenReserves |-> 0, tokenTotalSupply |-> 1000000000]

\* another set of seed parameters a setParams instruction can carry
OtherCurveParameters ==
  [initialVirtualTokenReserves |-> 2000000, initialVirtualSolReserves |-> 30,
   initialRealTokenReserves |-> 1000, tokenTotalSupply |-> 2000000000]

\* the arguments in the data of a setParams instruction
SetParamsArgs ==
  [feeRecipient : Users, feeBasisPoints : FeeArgs,
   seed : {DefaultCurveParameters, OtherCurveParameters}]

\* setParams.decode: the account list, and unit for the data
SetParamsDecode(user, args) == [accounts |-> [user |-> user], data |-> "unit"]

\* the fee initialize writes, by variant of the service
InitializeFee(variant) == IF variant = "part_008" THEN 0 ELSE 30

GlobalConfig(feeRecipient, feeBasisPoints, at) ==
  [feeRecipient |-> feeRecipient, feeBasisPoints |-> feeBasisPoints,
   createdAt |-> at, updatedAt |-> at]

\* the config as setGlobalConfig finds it: memory first, then the database
FoundGlobal(mem, d) ==
  IF MapHas(mem, GlobalId) THEN <<mem[GlobalId]>>
  ELSE IF MapHas(d, GlobalId) THEN <<d[GlobalId]>>
  ELSE << >>

\* setGlobalConfig: the Map of the store after it
setGlobalConfig(mem, d, feeRecipient, feeBasisPoints, at) ==
  LET found == FoundGlobal(mem, d)
  IN  IF found = << >>
        THEN MapSet(mem, GlobalId, GlobalConfig(feeRecipient, feeBasisPoints, at))
        ELSE MapSet(mem, GlobalId,
                    [found[1] EXCEPT !.feeRecipient = feeRecipient,
                                     !.feeBasisPoints = feeBasisPoints,
                                     !.updatedAt = at])

\* processInitializeInstruction: the Map after it.  When decode throws,
\* global.service.ts writes a fallback config and part_008 rethrows.
processInitializeInstruction(variant, mem, d, user, ok, at) ==
  IF ok THEN setGlobalConfig(mem, d, user, InitializeFee(variant), at)
  ELSE IF variant = "part_008" THEN mem
  ELSE setGlobalConfig(mem, d, "fallback-user", 30, at)

\* what processSetParamsInstruction hands to setGlobalConfig and caches
SetParamsValues(user, args) ==
  [feeRecipient |-> SetParamsDecode(user, args).accounts.user, feeBasisPoints |-> 30,
   seed |-> DefaultCurveParameters]

\* the curve of a create instruction, seeded from getCurveParameters
SeededCurve(curveParams) ==
  [virtualSolReserves   |-> curveParams.initialVirtualSolReserves,
   virtualTokenReserves |-> curveParams.initialVirtualTokenReserves,
   realSolReserves      |-> 0,
   realTokenReserves    |-> curveParams.initialRealTokenReserves,
   tokenTotalSupply     |-> curveParams.tokenTotalSupply,
   feeBasisPoints       |-> 30]

\* ---------------------------------------------------------------- actions
GInit ==
  /\ gvariant \in GlobalVariants
  /\ gmem = EmptyMap /\ gdb = EmptyMap
  /\ gparams = DefaultCurveParameters
  /\ gcurves = EmptyMap /\ gset = << >> /\ glast = << >> /\ gn = 0

notG == <<hvars, svars, pvars, lvars, wvars, cvars, dvars, kvars, tvars, evars, qvars, rvars>>

GInitialize ==
  /\ gn < MaxGlobalSteps
  /\ \E user \in Users, ok \in BOOLEAN :
       /\ gmem' = processInitializeInstruction(gvariant, gmem, gdb, user, ok, gn)
       /\ glast' = <<[kind |-> "initialize", user |-> user, ok |-> ok,
                      existed |-> FoundGlobal(gmem, gdb) # << >>]>>
  /\ gn' = gn + 1
  /\ UNCHANGED <<gvariant, gdb, gparams, gcurves, gset>>
  /\ UNCHANGED notG

GSetParams ==
  /\ gn < MaxGlobalSteps
  /\ \E user \in Users, args \in SetParamsArgs, ok \in BOOLEAN :
       /\ glast' = <<[kind |-> "setParams", user |-> user, ok |-> ok,
                      existed |-> FoundGlobal(gmem, gdb) # << >>]>>
       /\ IF ok
            THEN LET v == SetParamsValues(user, args)
                 IN  /\ gmem' = setGlobalConfig(gmem, gdb, v.feeRecipient,
                                                v.feeBasisPoints, gn)
                     /\ gparams' = v.seed
                     /\ gset' = <<args>>
            ELSE UNCHANGED <<gmem, gparams, gset>>
  /\ gn' = gn + 1
  /\ UNCHANGED <<gvariant, gdb, gcurves>>
  /\ UNCHANGED notG

\* processCreateInstruction, as far as the curve's seed goes; `after` keeps
\* the arguments of the setParams that preceded the create
GCreate ==
  /\ gn < MaxGlobalSteps
  /\ \E mint \in Mints :
       gcurves' = MapSet(gcurves, CurveOf(mint),
                         [curve |-> SeededCurve(gparams), after |-> gset])
  /\ glast' = <<[kind |-> "create", user |-> "u1", ok |-> TRUE,
                 existed |-> FoundGlobal(gmem, gdb) # << >>]>>
  /\ gn' = gn + 1
  /\ UNCHANGED <<gvariant, gmem, gdb, gparams, gset>>
  /\ UNCHANGED notG

\* the batch ends: the store is flushed, and the next batch gets a new
\* StoreManager and a new GlobalService
GEndBatch ==
  /\ glast # << >>
  /\ gdb' = DbWrite(gdb, gmem)
  /\ gmem' = EmptyMap
  /\ gparams' = DefaultCurveParameters
  /\ glast' = << >>
  /\ UNCHANGED <<gvariant, gcurves, gset, gn>>
  /\ UNCHANGED notG

GlobalNext ==
  \/ GInitialize
  \/ GSetParams
  \/ GCreate
  \/ GEndBatch

(***************************************************************************)
(* collectEntityIds and the dispatch pass of handle.  The first pass       *)
(* gathers the token and curve ids to prefetch; the second hands every     *)
(* instruction to its service.  Instruction.decode comes from idl.support, *)
(* which is not part of the sources: whether the buy layout decodes a sell *)
(* instruction is left open (buyDecodes).                                  *)
(***************************************************************************)
\* ------------------------------------------------------------------ bounds
\* Longest batch of the two passes.
MaxCollect == 2

\* account positions of the layouts (instructions.ts)
BuyLayout      == [bondingCurve |-> 0, mint |-> 4]
SellLayout     == [mint |-> 2, bondingCurve |-> 3]
WithdrawLayout == [bondingCurve |-> 1]

\* Instruction.decodeAccounts: the accounts by name
DecodeAccounts(layout, accounts) == [k \in DOMAIN layout |-> accounts[layout[k] + 1]]

\* the account list of an instruction of this kind on this mint
AccountsOf(kind, mint) ==
  CASE kind = "buy"      -> <<CurveOf(mint), "fee", "user", "userToken", mint>>
    [] kind = "sell"     -> <<"global", "fee", mint, CurveOf(mint), "assocCurve",
                              "assocUser", "user">>
    [] kind = "withdraw" -> <<"lastWithdraw", CurveOf(mint), "user">>
    [] OTHER             -> <<mint, "mintAuthority", CurveOf(mint), "assocCurve",
                              "global">>

\* an inner instruction with the discriminator of the event: whether its
\* first account is the event authority, whether its data decodes, and the
\* mint of the event
CInner(auth, decodes, mint) == [auth |-> auth, decodes |-> decodes, mint |-> mint]

\* decodes     the layout of the instruction's own kind decodes it
\* buyDecodes  pumpIns.buy.decode returns for it
CInstr(kind, mint, inner, decodes, buyDecodes) ==
  [kind |-> kind, mint |-> mint, accounts |-> AccountsOf(kind, mint),
   inner |-> inner, decodes |-> decodes, buyDecodes |-> buyDecodes]

CCatalogue ==
  { CInstr("create",   "M1", <<CInner(TRUE, TRUE, "M1")>>, TRUE, FALSE),
    CInstr("create",   "M2", <<CInner(TRUE, FALSE, "M2")>>, TRUE, FALSE),
    CInstr("buy",      "M1", <<CInner(TRUE, TRUE, "M1")>>, TRUE, TRUE),
    CInstr("buy",      "M2", <<CInner(TRUE, FALSE, "M2"), CInner(TRUE, TRUE, "M2")>>,
           TRUE, TRUE),
    CInstr("buy",      "M1", <<CInner(TRUE, FALSE, "M1")>>, TRUE, TRUE),
    CInstr("sell",     "M1", <<CInner(TRUE, TRUE, "M1")>>, TRUE, TRUE),
    CInstr("sell",     "M2", <<CInner(TRUE, TRUE, "M2")>>, TRUE, FALSE),
    CInstr("withdraw", "M2", << >>, TRUE, FALSE),
    CInstr("withdraw", "M1", << >>, FALSE, FALSE) }

CBatches == UNION { [1..n -> CCatalogue] : n \in 1..MaxCollect }

\* ------------------------------------------------------ collectEntityIds
\* the ids so far and whether the body of the try block has thrown
IdSets(tokenSet, curveSet, thrown) == [tokenIds |-> tokenSet, curveIds |-> curveSet, thrown |-> thrown]

\* inner.find(f => f.programId === PROGRAM_ID && f.d8 === <event>.d8):
\* the first inner instruction, whichever its first account
FirstInner(ins) == IF ins.inner = << >> THEN << >> ELSE <<ins.inner[1]>>

\* case create
CollectCreate(S, ins) ==
  LET createInner == FirstInner(ins)
  IN  IF createInner = << >> THEN S
      ELSE IF ~createInner[1].decodes THEN [S EXCEPT !.thrown = TRUE]
      ELSE [S EXCEPT !.tokenIds = @ \cup {createInner[1].mint},
                     !.curveIds = @ \cup {CurveOf(createInner[1].mint)}]

\* case withdraw
CollectWithdraw(S, ins) ==
  IF ~ins.decodes THEN [S EXCEPT !.thrown = TRUE]
  ELSE [S EXCEPT !.curveIds = @ \cup {DecodeAccounts(WithdrawLayout, ins.accounts).bondingCurve}]

\* case buy, case sell: the mint of the event first, then the curve of the
\* outer instruction under the buy layout
CollectTrade(S, ins) ==
  LET tradeInner == FirstInner(ins)
      T == IF tradeInner = << >> THEN S
           ELSE IF ~tradeInner[1].decodes THEN [S EXCEPT !.thrown = TRUE]
           ELSE [S EXCEPT !.tokenIds = @ \cup {tradeInner[1].mint}]
  IN  IF T.thrown THEN T
      ELSE IF ~ins.buyDecodes THEN [T EXCEPT !.thrown = TRUE]
      ELSE [T EXCEPT !.curveIds = @ \cup {DecodeAccounts(BuyLayout, ins.accounts).bondingCurve}]

\* one turn of the loop: the switch inside try, the catch that ignores
CollectOne(S, ins) ==
  LET R == CASE ins.kind = "create"        -> CollectCreate(S, ins)
             [] ins.kind = "withdraw"      -> CollectWithdraw(S, ins)
             [] ins.kind \in {"buy", "sell"} -> CollectTrade(S, ins)
             [] OTHER                      -> S
  IN  [R EXCEPT !.thrown = FALSE]

RECURSIVE CollectFrom(_, _, _)
CollectFrom(S, b, i) ==
  IF i > Len(b) THEN S ELSE CollectFrom(CollectOne(S, b[i]), b, i + 1)

collectEntityIds(b) == CollectFrom(IdSets({}, {}, FALSE), b, 1)

\* ------------------------------------------------------------ the handlers
\* the event processTradeInstruction ends up with: the last inner
\* instruction of the event authority that decodes
HandlerEvent(ins) ==
  LET kept == SelectSeq(ins.inner, LAMBDA f : f.auth /\ f.decodes)
  IN  IF kept = << >> THEN << >> ELSE <<kept[Len(kept)]>>

\* the ids a handler asks the stores for; none when it returns or throws
\* before it gets there
Lookups(ins) ==
  CASE ins.kind \in {"buy", "sell"} ->
         IF HandlerEvent(ins) = << >> \/ ~ins.decodes THEN {}
         ELSE {[token |-> HandlerEvent(ins)[1].mint,
                curve |-> DecodeAccounts(IF ins.kind = "buy" THEN BuyLayout ELSE SellLayout,
                                         ins.accounts).bondingCurve]}
    [] OTHER -> {}

\* ---------------------------------------------------------------- actions
CInit ==
  /\ cbatch \in CBatches
  /\ cpc = "collect" /\ ci = 1
  /\ cids = IdSets({}, {}, FALSE)
  /\ chandled = {} /\ clooked = {}

notC == <<hvars, svars, pvars, lvars, wvars, gvars, dvars, kvars, tvars, evars, qvars, rvars>>

\* const { tokenIds, curveIds } = collectEntityIds(blocks)
CCollect ==
  /\ cpc = "collect"
  /\ cids' = collectEntityIds(cbatch)
  /\ cpc' = IF cids'.thrown THEN "failed" ELSE "dispatch"
  /\ UNCHANGED <<cbatch, ci, chandled, clooked>>
  /\ UNCHANGED notC

\* one turn of the dispatch loop: the instruction goes to its service,
\* whose failure the loop catches
CDispatch ==
  /\ cpc = "dispatch" /\ ci <= Len(cbatch)
  /\ chandled' = chandled \cup {ci}
  /\ clooked' = clooked \cup Lookups(cbatch[ci])
  /\ ci' = ci + 1
  /\ UNCHANGED <<cbatch, cpc, cids>>
  /\ UNCHANGED notC

CDispatchEnd ==
  /\ cpc = "dispatch" /\ ci > Len(cbatch)
  /\ cpc' = "done"
  /\ UNCHANGED <<cbatch, ci, cids, chandled, clooked>>
  /\ UNCHANGED notC

CollectNext ==
  \/ CCollect
  \/ CDispatch
  \/ CDispatchEnd

(***************************************************************************)
(* PumpEventDecoder (src/unnamed/part_001) and the lookup of the layout by *)
(* discriminator in the dispatch loop of handle.                           *)
(***************************************************************************)
\* ------------------------------------------------------------------ bounds
\* Most calls of the decoder and turns of the dispatch loop.
MaxDecodes == 3

\* the discriminators of DISCRIMINATORS, and two that are not in it
EventDiscriminators == {"CreateEvent", "TradeEvent", "CompleteEvent", "SetParamsEvent"}
Discriminators == EventDiscriminators \cup {"0x01", "0x02"}

\* the discriminators of the instruction layouts of pumpIns
LayoutDiscriminators == {"initialize", "setParams", "create", "buy", "sell", "withdraw"}

\* event data: its first eight bytes, and whether the rest decodes
Payloads == [d8 : Discriminators, intact : BOOLEAN]

Returned(type) == [threw |-> FALSE, type |-> type]
Threw == [threw |-> TRUE, type |-> "none"]

\* DISCRIMINATORS[discriminator] || EventType.UNKNOWN
identifyEventType(discriminator) ==
  IF discriminator \in EventDiscriminators THEN discriminator ELSE "Unknown"

\* decodeEvent: the default case of the switch throws, and the catch
\* rethrows
decodeEvent(payload) ==
  LET eventType == identifyEventType(payload.d8)
  IN  IF eventType = "Unknown" THEN Threw
      ELSE IF payload.intact THEN Returned(eventType) ELSE Threw

\* decode
decode(payload) ==
  IF identifyEventType(payload.d8) = "Unknown" THEN Threw ELSE decodeEvent(payload)

\* ---------------------------------------------------------------- actions
DInit == dlog = << >> /\ dunknown = 0 /\ dhanded = 0

DOff == dlog = << >> /\ dunknown = 0 /\ dhanded = 0

notD == <<hvars, svars, pvars, lvars, wvars, gvars, cvars, kvars, tvars, evars, qvars, rvars>>

DLogged(entry, d8, outcome, changed) ==
  /\ Len(dlog) < MaxDecodes
  /\ dlog' = Append(dlog, [entry |-> entry, d8 |-> d8, threw |-> outcome.threw,
                           type |-> outcome.type, changed |-> changed])

DIdentify ==
  /\ \E d \in Discriminators : DLogged("identifyEventType", d, Returned(identifyEventType(d)), FALSE)
  /\ UNCHANGED <<dunknown, dhanded>>
  /\ UNCHANGED notD

DDecodeEvent ==
  /\ \E p \in Payloads : DLogged("decodeEvent", p.d8, decodeEvent(p), FALSE)
  /\ UNCHANGED <<dunknown, dhanded>>
  /\ UNCHANGED notD

DDecode ==
  /\ \E p \in Payloads : DLogged("decode", p.d8, decode(p), FALSE)
  /\ UNCHANGED <<dunknown, dhanded>>
  /\ UNCHANGED notD

\* one turn of the dispatch loop: an instruction without a layout is
\* counted and skipped, any other goes to its service
DDispatch ==
  \E d \in LayoutDiscriminators \cup {"0x01", "0x02"} :
     IF d \in LayoutDiscriminators
       THEN /\ DLogged("dispatch", d, Returned(d), TRUE)
            /\ dhanded' = dhanded + 1
            /\ UNCHANGED dunknown
            /\ UNCHANGED notD
       ELSE /\ DLogged("dispatch", d, Returned("Unknown"), FALSE)
            /\ dunknown' = dunknown + 1
            /\ UNCHANGED dhanded
            /\ UNCHANGED notD

DecoderNext ==
  \/ DIdentify
  \/ DDecodeEvent
  \/ DDecode
  \/ DDispatch

(***************************************************************************)
(* The write calls of a flush.  StoreManager.save of memory.store.ts       *)
(* slices the records of every store into batches of OPTIMAL_BATCH_SIZE;   *)
(* MemoryStore.flush of src/unnamed/part_003 hands the whole insertList to *)
(* one upsert and the whole updateList to one save.                        *)
(***************************************************************************)
\* ------------------------------------------------------------------ bounds
\* Most pending records of one store.
MaxPending == 3
\* OPTIMAL_BATCH_SIZE.  The source uses 2000; the model scales it down so
\* that MaxPending records cross it.
ChunkLimit == 2

FlushVariants == {"StoreManager.save", "MemoryStore.flush"}

\* n pending records of a store
Pending(name, n) == [k \in 1..n |-> <<name, k>>]

\* entities.slice(i, i + OPTIMAL_BATCH_SIZE), i counted from 0
Slice(entities, i, size) ==
  SubSeq(entities, i + 1, IF i + size < Len(entities) THEN i + size ELSE Len(entities))

WriteCall(op, records, ok) == [op |-> op, records |-> records, ok |-> ok]

\* the calls of the fallback loop: one per record
RECURSIVE EachCalls(_, _, _)
EachCalls(op, records, bad) ==
  IF records = << >> THEN << >>
  ELSE <<WriteCall(op, <<Head(records)>>, Head(records) \notin bad)>>
         \o EachCalls(op, Tail(records), bad)

\* try { bulk } catch { one by one }
BulkThenEach(op, records, ok, bad) ==
  IF ok THEN <<WriteCall(op, records, TRUE)>>
  ELSE <<WriteCall(op, records, FALSE)>> \o EachCalls(op, records, bad)

\* ---------------------------------------------------------------- actions
KInit ==
  /\ kvariant \in FlushVariants
  /\ \E a, b \in 0..MaxPending :
       /\ kfirst = Pending("first", a)
       /\ ksecond = Pending("second", b)
  /\ kpc = "first" /\ ki = 0 /\ kcalls = << >>

KOff ==
  /\ kvariant = "off" /\ kfirst = << >> /\ ksecond = << >>
  /\ kpc = "off" /\ ki = 0 /\ kcalls = << >>

notK == <<hvars, svars, pvars, lvars, wvars, gvars, dvars, cvars, tvars, evars, qvars, rvars>>

KRecords == IF kpc = "first" THEN kfirst ELSE ksecond

\* StoreManager.save: one turn of an inner loop, await ctx.store.save(batch);
\* a rejected write ends save
KSaveBatch ==
  /\ kvariant = "StoreManager.save" /\ kpc \in {"first", "second"}
  /\ ki < Len(KRecords)
  /\ \E ok \in BOOLEAN :
       /\ kcalls' = Append(kcalls, WriteCall("save", Slice(KRecords, ki, ChunkLimit), ok))
       /\ IF ok THEN ki' = ki + ChunkLimit /\ UNCHANGED kpc
                ELSE kpc' = "failed" /\ UNCHANGED ki
  /\ UNCHANGED <<kvariant, kfirst, ksecond>>
  /\ UNCHANGED notK

\* StoreManager.save: an inner loop ends
KSaveNext ==
  /\ kvariant = "StoreManager.save" /\ kpc \in {"first", "second"}
  /\ ki >= Len(KRecords)
  /\ kpc' = IF kpc = "first" THEN "second" ELSE "done"
  /\ ki' = 0
  /\ UNCHANGED <<kvariant, kfirst, ksecond, kcalls>>
  /\ UNCHANGED notK

\* MemoryStore.flush: upsert of the insertList
KFlushUpserts ==
  /\ kvariant = "MemoryStore.flush" /\ kpc = "first"
  /\ IF kfirst = << >> THEN UNCHANGED kcalls
     ELSE \E ok \in BOOLEAN, bad \in SUBSET {kfirst[k] : k \in 1..Len(kfirst)} :
            /\ ok => bad = {}
            /\ kcalls' = kcalls \o BulkThenEach("upsert", kfirst, ok, bad)
  /\ kpc' = "second"
  /\ UNCHANGED <<kvariant, kfirst, ksecond, ki>>
  /\ UNCHANGED notK

\* MemoryStore.flush: save of the updateList
KFlushUpdates ==
  /\ kvariant = "MemoryStore.flush" /\ kpc = "second"
  /\ IF ksecond = << >> THEN UNCHANGED kcalls
     ELSE \E ok \in BOOLEAN, bad \in SUBSET {ksecond[k] : k \in 1..Len(ksecond)} :
            /\ ok => bad = {}
            /\ kcalls' = kcalls \o BulkThenEach("save", ksecond, ok, bad)
  /\ kpc' = "done"
  /\ UNCHANGED <<kvariant, kfirst, ksecond, ki>>
  /\ UNCHANGED notK

ChunkNext ==
  \/ KSaveBatch
  \/ KSaveNext
  \/ KFlushUpserts
  \/ KFlushUpdates

(***************************************************************************)
(* The single-map MemoryStore with a size threshold: find and save of      *)
(* src/src/store/memory.store.ts 37-62 and src/unnamed/part_003 54-78.     *)
(* save writes the map out and clears it when it has grown past the        *)
(* threshold (MapLimit here, 1000 in the source).                          *)
(***************************************************************************)
\* ------------------------------------------------------------------ bounds
\* Most calls of find, save and flush.
MaxStoreOps == 5

ThresholdVariants == {"memory.store", "part_003"}

TIds == {"a", "b", "c", "d"}

\* this.map.get(id): the entity or undefined
MapGet(m, id) == IF MapHas(m, id) THEN <<m[id]>> ELSE << >>

\* ---------------------------------------------------------------- actions
TInit ==
  /\ tvariant \in ThresholdVariants
  /\ tmap = EmptyMap /\ tsaved = EmptyMap /\ tflight = << >>
  /\ tdb = EmptyMap /\ tfound = << >> /\ tn = 0

TOff ==
  /\ tvariant = "off"
  /\ tmap = EmptyMap /\ tsaved = EmptyMap /\ tflight = << >>
  /\ tdb = EmptyMap /\ tfound = << >> /\ tn = 0

notT == <<hvars, svars, pvars, lvars, wvars, gvars, dvars, kvars, cvars, evars, qvars, rvars>>

\* save: Map.set, then past the threshold the map is copied, cleared and
\* written; memory.store.ts does not await the write, part_003 does
TSave ==
  /\ tn < MaxStoreOps
  /\ \E id \in TIds, v \in Vals :
       LET m == MapSet(tmap, id, v)
       IN  /\ tsaved' = MapSet(tsaved, id, v)
           /\ IF Cardinality(DOMAIN m) > MapLimit
                THEN /\ tmap' = EmptyMap
                     /\ IF tvariant = "part_003"
                          THEN tdb' = DbWrite(tdb, m) /\ UNCHANGED tflight
                          ELSE tflight' = Append(tflight, m) /\ UNCHANGED tdb
                ELSE tmap' = m /\ UNCHANGED <<tflight, tdb>>
  /\ tfound' = << >>
  /\ tn' = tn + 1
  /\ UNCHANGED tvariant
  /\ UNCHANGED notT

\* find: the entity of the map or undefined
TFind ==
  /\ tn < MaxStoreOps
  /\ \E id \in TIds : tfound' = <<id, MapGet(tmap, id)>>
  /\ tn' = tn + 1
  /\ UNCHANGED <<tvariant, tmap, tsaved, tflight, tdb>>
  /\ UNCHANGED notT

\* an upsert that was not awaited completes
TWriteLands ==
  /\ tflight # << >>
  /\ tdb' = DbWrite(tdb, Head(tflight))
  /\ tflight' = Tail(tflight)
  /\ UNCHANGED <<tvariant, tmap, tsaved, tfound, tn>>
  /\ UNCHANGED notT

\* the end-of-batch flush; the next batch gets a new store
TFlush ==
  /\ tn < MaxStoreOps /\ tsaved # EmptyMap
  /\ tdb' = DbWrite(tdb, tmap)
  /\ tmap' = EmptyMap /\ tsaved' = EmptyMap /\ tfound' = << >>
  /\ tn' = tn + 1
  /\ UNCHANGED <<tvariant, tflight>>
  /\ UNCHANGED notT

ThresholdNext ==
  \/ TSave
  \/ TFind
  \/ TWriteLands
  \/ TFlush

(***************************************************************************)
(* The end-of-batch save: StoreManager.save of src/unnamed/part_003        *)
(* 302-319 with its fixed flush order, the four service flushes of         *)
(* src/src/processor.ts 257-264, and StoreManager.save of                  *)
(* src/src/store/memory.store.ts 205-245 that walks every store.           *)
(***************************************************************************)
SaveVariants == {"part_003.save", "processor.flush", "memory.store.save"}

StoreNames ==
  <<"GlobalConfig", "PumpToken", "BondingCurve", "Trade", "TokenCreated",
    "TokenCompleted", "WalletStats", "WalletTokenStats">>

\* const flushOrder of part_003 304-311
flushOrder ==
  <<"GlobalConfig", "PumpToken", "BondingCurve", "Trade", "TokenCreated",
    "TokenCompleted">>

\* tokenService.flush, curveService.flush, tradeService.flush and
\* globalService.flush, with the stores each of them flushes
ServiceFlushes ==
  <<"PumpToken", "TokenCreated", "TokenCompleted", "BondingCurve", "Trade",
    "GlobalConfig">>

\* the stores a save visits, in its order
SaveOrder(variant) ==
  IF variant = "part_003.save" THEN flushOrder
  ELSE IF variant = "processor.flush" THEN ServiceFlushes
  ELSE StoreNames

\* ---------------------------------------------------------------- actions
EInit ==
  /\ evariant \in SaveVariants
  /\ estores = {} /\ epending = {} /\ eorder = << >> /\ edb = {}
  /\ epc = "dispatch"

EOff ==
  /\ evariant = "off"
  /\ estores = {} /\ epending = {} /\ eorder = << >> /\ edb = {}
  /\ epc = "off"

notE == <<hvars, svars, pvars, lvars, wvars, gvars, dvars, kvars, tvars, cvars, qvars, rvars>>

\* a service saves an entity to the store it got from getStore
EGetStoreSave ==
  /\ epc = "dispatch"
  /\ \E i \in 1..Len(StoreNames) :
       /\ estores'  = estores \cup {StoreNames[i]}
       /\ epending' = epending \cup {StoreNames[i]}
  /\ UNCHANGED <<evariant, eorder, edb, epc>>
  /\ UNCHANGED notE

\* the dispatch pass ends and the save begins
EDispatchEnd ==
  /\ epc = "dispatch"
  /\ epc' = "save"
  /\ eorder' = SaveOrder(evariant)
  /\ UNCHANGED <<evariant, estores, epending, edb>>
  /\ UNCHANGED notE

\* one turn of the save: the store is flushed if there is one of that name
\* and it has entities
ESaveNext ==
  /\ epc = "save" /\ eorder # << >>
  /\ LET name == Head(eorder)
     IN  IF name \in estores /\ name \in epending
           THEN /\ edb' = edb \cup {name}
                /\ epending' = epending \ {name}
           ELSE UNCHANGED <<edb, epending>>
  /\ eorder' = Tail(eorder)
  /\ UNCHANGED <<evariant, estores, epc>>
  /\ UNCHANGED notE

\* the save returns
ESaveEnd ==
  /\ epc = "save" /\ eorder = << >>
  /\ epc' = "done"
  /\ UNCHANGED <<evariant, estores, epending, eorder, edb>>
  /\ UNCHANGED notE

EndNext ==
  \/ EGetStoreSave
  \/ EDispatchEnd
  \/ ESaveNext
  \/ ESaveEnd

(***************************************************************************)
(* The lock-protected StoreManager of src/unnamed/part_004 148-270:        *)
(* scheduleFlush and scheduleBatchSave put an operation on                 *)
(* transactionQueue and call processQueue, which takes the operations one  *)
(* by one under transactionLock; findEntitiesByIds reads under the same    *)
(* lock.  acquireLock tests and sets the flag in one synchronous step and  *)
(* polls with a timer while the flag is set.  A step of the model is what  *)
(* runs between two awaits.                                                *)
(***************************************************************************)
\* ------------------------------------------------------------------ bounds
\* Most operations scheduled, and most calls of findEntitiesByIds.
MaxQueueOps == 3
MaxFinds == 2

OpIds == 1..MaxQueueOps
Finders == 1..MaxFinds
OpTypes == {"flush", "batchSave"}
NoOp == [id |-> 0, type |-> "none"]

\* acquireLock, check(): if (!this.transactionLock)
CanAcquireAlways(lock) == TRUE

CanAcquire(lock) == ~lock

\* processQueue: while (this.transactionQueue.length > 0)
MoreWorkNever(queue) == FALSE

MoreWork(queue) == Len(queue) > 0

\* ---------------------------------------------------------------- actions
QInit ==
  /\ transactionQueue = << >> /\ isProcessingQueue = FALSE
  /\ transactionLock = FALSE
  /\ qcur = NoOp /\ qpc = "idle"
  /\ qfind = [f \in Finders |-> "new"]
  /\ qholders = {}
  /\ qsettled = [o \in OpIds |-> << >>]
  /\ qexec = << >> /\ qn = 0

QOff ==
  /\ transactionQueue = << >> /\ isProcessingQueue = FALSE
  /\ transactionLock = FALSE
  /\ qcur = NoOp /\ qpc = "off"
  /\ qfind = << >> /\ qholders = {}
  /\ qsettled = << >> /\ qexec = << >> /\ qn = 0

notQ == <<hvars, svars, pvars, lvars, wvars, gvars, dvars, kvars, tvars, evars, cvars, rvars>>

\* the top of the loop of processQueue on queue q with the lock as it is:
\* shift, then acquireLock, whose first check runs at once
TakeNext(q, lock, holders) ==
  /\ qcur' = Head(q)
  /\ transactionQueue' = Tail(q)
  /\ isProcessingQueue' = TRUE
  /\ IF CanAcquire(lock)
       THEN /\ transactionLock' = TRUE
            /\ qholders' = holders \cup {0}
            /\ qpc' = "acquired"
       ELSE /\ transactionLock' = lock
            /\ qholders' = holders
            /\ qpc' = "polling"

\* scheduleFlush / scheduleBatchSave: push, then processQueue, which
\* returns at once if it is running already
QSchedule ==
  /\ qn < MaxQueueOps
  /\ \E type \in OpTypes :
       LET op == [id |-> qn + 1, type |-> type]
           q  == Append(transactionQueue, op)
       IN  IF isProcessingQueue \/ Len(q) = 0
             THEN /\ transactionQueue' = q
                  /\ UNCHANGED <<isProcessingQueue, transactionLock, qcur, qpc, qholders>>
             ELSE TakeNext(q, transactionLock, qholders)
  /\ qn' = qn + 1
  /\ UNCHANGED <<qfind, qsettled, qexec>>
  /\ UNCHANGED notQ

\* the timer of processQueue's acquireLock finds the lock free
QPoll ==
  /\ qpc = "polling" /\ CanAcquire(transactionLock)
  /\ transactionLock' = TRUE
  /\ qholders' = qholders \cup {0}
  /\ qpc' = "acquired"
  /\ UNCHANGED <<transactionQueue, isProcessingQueue, qcur, qfind, qsettled, qexec, qn>>
  /\ UNCHANGED notQ

\* after the operation is settled: finally releaseLock, then the loop
\* goes on or processQueue ends
AfterOperation(outcome) ==
  /\ qsettled' = [qsettled EXCEPT ![qcur.id] = Append(@, outcome)]
  /\ IF MoreWork(transactionQueue)
       THEN TakeNext(transactionQueue, FALSE, qholders \ {0})
       ELSE /\ transactionLock' = FALSE
            /\ qholders' = qholders \ {0}
            /\ isProcessingQueue' = FALSE
            /\ qcur' = NoOp /\ qpc' = "idle"
            /\ UNCHANGED transactionQueue

\* processQueue goes on after acquireLock: the switch.  An operation with
\* nothing to write is resolved at once, the others await the upsert
QRun ==
  /\ qpc = "acquired"
  /\ qexec' = Append(qexec, qcur.id)
  /\ \E empty \in BOOLEAN :
       IF empty THEN AfterOperation("resolved")
       ELSE /\ qpc' = "upsert"
            /\ UNCHANGED <<transactionQueue, isProcessingQueue, transactionLock,
                           qcur, qholders, qsettled>>
  /\ UNCHANGED <<qfind, qn>>
  /\ UNCHANGED notQ

\* the upsert returns or throws: operation.resolve or operation.reject
QUpsertDone ==
  /\ qpc = "upsert"
  /\ \E outcome \in {"resolved", "rejected"} : AfterOperation(outcome)
  /\ UNCHANGED <<qfind, qexec, qn>>
  /\ UNCHANGED notQ

\* findEntitiesByIds is called: acquireLock, whose first check runs at once
FStart ==
  \E f \in Finders :
     /\ qfind[f] = "new"
     /\ IF CanAcquire(transactionLock)
          THEN /\ transactionLock' = TRUE
               /\ qholders' = qholders \cup {f}
               /\ qfind' = [qfind EXCEPT ![f] = "acquired"]
          ELSE /\ qfind' = [qfind EXCEPT ![f] = "polling"]
               /\ UNCHANGED <<transactionLock, qholders>>
     /\ UNCHANGED <<transactionQueue, isProcessingQueue, qcur, qpc, qsettled, qexec, qn>>
     /\ UNCHANGED notQ

\* the timer of a reader's acquireLock finds the lock free
FPoll ==
  \E f \in Finders :
     /\ qfind[f] = "polling" /\ CanAcquire(transactionLock)
     /\ transactionLock' = TRUE
     /\ qholders' = qholders \cup {f}
     /\ qfind' = [qfind EXCEPT ![f] = "acquired"]
     /\ UNCHANGED <<transactionQueue, isProcessingQueue, qcur, qpc, qsettled, qexec, qn>>
     /\ UNCHANGED notQ

\* the reader goes on after acquireLock: ctx.store.findBy is started
FRun ==
  \E f \in Finders :
     /\ qfind[f] = "acquired"
     /\ qfind' = [qfind EXCEPT ![f] = "finding"]
     /\ UNCHANGED <<transactionQueue, isProcessingQueue, transactionLock, qcur, qpc,
                    qholders, qsettled, qexec, qn>>
     /\ UNCHANGED notQ

\* findBy returns or throws: finally releaseLock
FDone ==
  \E f \in Finders :
     /\ qfind[f] = "finding"
     /\ transactionLock' = FALSE
     /\ qholders' = qholders \ {f}
     /\ qfind' = [qfind EXCEPT ![f] = "done"]
     /\ UNCHANGED <<transactionQueue, isProcessingQueue, qcur, qpc, qsettled, qexec, qn>>
     /\ UNCHANGED notQ

LockNext ==
  \/ QSchedule
  \/ QPoll
  \/ QRun
  \/ QUpsertDone
  \/ FStart
  \/ FPoll
  \/ FRun
  \/ FDone

(***************************************************************************)
(* The deferred tasks: `for (const task of processorContext.queue) await   *)
(* task()` of src/unnamed/part_001 186-189 and the tasks that              *)
(* BondingCurveService puts on the queue                                   *)
(* (src/src/services/bondingCurve.service.ts).  The array iterator reads   *)
(* the length of the array at every turn, so a task pushed by a running    *)
(* task is run in the same loop.  The part of the queue the iterator has   *)
(* passed is not kept.                                                     *)
(***************************************************************************)
\* ------------------------------------------------------------------ bounds
\* Most tasks on the queue when the loop starts.
MaxQueued == 4

\* "tokenUpdate": the task of createBondingCurve 121-144;
\* "curveUpdate": the tasks of updateBondingCurve 273-289 and 302-322;
\* "createRetry": the task of createBondingCurve 166-189
TaskKinds == {"tokenUpdate", "curveUpdate", "createRetry"}

\* how a call of createBondingCurve ends (37-196): the curve is written;
\* the token is not valid, the curve is inserted without it and a
\* tokenUpdate task is pushed (109-146); a statement fails with 25P02 and a
\* createRetry task is pushed (157-191); another error is thrown (193-195)
CreateOutcomes == {"written", "deferred", "aborted", "thrown"}

\* what createBondingCurve pushes on the queue
Pushed(outcome) ==
  IF outcome = "deferred" THEN <<"tokenUpdate">>
  ELSE IF outcome = "aborted" THEN <<"createRetry">>
  ELSE << >>

\* ---------------------------------------------------------------- actions
RInit ==
  /\ rqueue \in UNION { [1..n -> TaskKinds] : n \in 0..MaxQueued }
  /\ rslot = 0 /\ rlast = "none" /\ rpc = "loop"

ROff ==
  /\ rqueue = << >> /\ rslot = 0 /\ rlast = "none" /\ rpc = "off"

notR == <<hvars, svars, pvars, lvars, wvars, gvars, dvars, kvars, tvars, evars, qvars, cvars>>

\* a tokenUpdate or curveUpdate task runs: reads and an upsert inside a
\* try whose catch only logs
RRunUpdate ==
  /\ rpc = "loop" /\ rqueue # << >>
  /\ Head(rqueue) \in {"tokenUpdate", "curveUpdate"}
  /\ rqueue' = Tail(rqueue)
  /\ rslot' = 1 - rslot
  /\ \E ok \in BOOLEAN : rlast' = IF ok THEN "updated" ELSE "logged"
  /\ UNCHANGED rpc
  /\ UNCHANGED notR

\* a createRetry task runs: createBondingCurve(paramsForQueue), and the
\* last resort insert if it throws
RRunRetry ==
  /\ rpc = "loop" /\ rqueue # << >>
  /\ Head(rqueue) = "createRetry"
  /\ \E outcome \in CreateOutcomes :
       /\ rqueue' = Tail(rqueue) \o Pushed(outcome)
       /\ rlast' = outcome
  /\ rslot' = 1 - rslot
  /\ UNCHANGED rpc
  /\ UNCHANGED notR

\* the iterator is at the end of the array
RLoopEnd ==
  /\ rpc = "loop" /\ rqueue = << >>
  /\ rpc' = "done"
  /\ UNCHANGED <<rqueue, rslot, rlast>>
  /\ UNCHANGED notR

TaskNext ==
  \/ RRunUpdate
  \/ RRunRetry
  \/ RLoopEnd

(***************************************************************************)
(* The specifications.  Each runs one part of the program and keeps       *)
(* the variables of the other parts at their idle values.                  *)
(***************************************************************************)
SOff == SIdle("off") /\ sdb = << >> /\ sbad = {}
POff == PIdle("off") /\ isEventType = FALSE /\ pdb = << >>
HOff ==
  /\ batch = << >> /\ hpc = "off" /\ next = 1 /\ task = << >>
  /\ stores = [k \in Kinds |-> EmptyMap] /\ txLogCounter = 0
  /\ db = [k \in Kinds |-> EmptyMap] /\ dbLog = << >> /\ flushed = {}
  /\ db0 = [k \in Kinds |-> EmptyMap]

LOff ==
  /\ seq = << >> /\ cut = 0 /\ pos = 1 /\ lpc = "off"
  /\ one = Ledger(NoMem, EmptyMap, [h \in Blocks |-> 0], NoMem)
  /\ two = one /\ prev = [one |-> one, two |-> two]

WOff ==
  /\ wired = FALSE /\ wstats = EmptyMap /\ wtstats = EmptyMap
  /\ wdb = [WalletStats |-> EmptyMap, WalletTokenStats |-> EmptyMap]
  /\ wtraded = << >> /\ applied = << >> /\ wn = 0

GOff ==
  /\ gvariant = "off" /\ gmem = EmptyMap /\ gdb = EmptyMap
  /\ gparams = DefaultCurveParameters
  /\ gcurves = EmptyMap /\ gset = << >> /\ glast = << >> /\ gn = 0

COff ==
  /\ cbatch = << >> /\ cpc = "off" /\ ci = 1
  /\ cids = IdSets({}, {}, FALSE)
  /\ chandled = {} /\ clooked = {}

XOff == WOff /\ GOff /\ COff /\ DOff /\ KOff /\ TOff /\ EOff /\ QOff /\ ROff

Init == HInit /\ SOff /\ POff /\ LOff /\ XOff
Spec == Init /\ [][Next]_vars

StoreInit == SInit /\ HOff /\ POff /\ LOff /\ XOff
StoreSpec == StoreInit /\ [][StoreNext]_vars

PlainInit == PInit /\ HOff /\ SOff /\ LOff /\ XOff
PlainSpec == PlainInit /\ [][PlainNext]_vars

SerialInit == LInit /\ HOff /\ SOff /\ POff /\ XOff
SerialSpec == SerialInit /\ [][SerialNext]_vars

WalletInit == WInit /\ HOff /\ SOff /\ POff /\ LOff /\ GOff /\ COff /\ DOff /\ KOff /\ TOff /\ EOff /\ QOff /\ ROff
WalletSpec == WalletInit /\ [][WalletNext]_vars

GlobalInit == GInit /\ HOff /\ SOff /\ POff /\ LOff /\ WOff /\ COff /\ DOff /\ KOff /\ TOff /\ EOff /\ QOff /\ ROff
GlobalSpec == GlobalInit /\ [][GlobalNext]_vars

CollectInit == CInit /\ HOff /\ SOff /\ POff /\ LOff /\ WOff /\ GOff /\ DOff /\ KOff /\ TOff /\ EOff /\ QOff /\ ROff
CollectSpec == CollectInit /\ [][CollectNext]_vars

DecoderInit == DInit /\ HOff /\ SOff /\ POff /\ LOff /\ WOff /\ GOff /\ COff /\ KOff /\ TOff /\ EOff /\ QOff /\ ROff
DecoderSpec == DecoderInit /\ [][DecoderNext]_vars

ChunkInit == KInit /\ HOff /\ SOff /\ POff /\ LOff /\ WOff /\ GOff /\ COff /\ DOff /\ TOff /\ EOff /\ QOff /\ ROff
ChunkSpec == ChunkInit /\ [][ChunkNext]_vars

ThresholdInit == TInit /\ HOff /\ SOff /\ POff /\ LOff /\ WOff /\ GOff /\ COff /\ DOff /\ KOff /\ EOff /\ QOff /\ ROff
ThresholdSpec == ThresholdInit /\ [][ThresholdNext]_vars

EndInit == EInit /\ HOff /\ SOff /\ POff /\ LOff /\ WOff /\ GOff /\ COff /\ DOff /\ KOff /\ TOff /\ QOff /\ ROff
EndSpec == EndInit /\ [][EndNext]_vars

LockInit == QInit /\ HOff /\ SOff /\ POff /\ LOff /\ WOff /\ GOff /\ COff /\ DOff /\ KOff /\ TOff /\ EOff /\ ROff
LockSpec == LockInit /\ [][LockNext]_vars

TaskInit == RInit /\ HOff /\ SOff /\ POff /\ LOff /\ WOff /\ GOff /\ COff /\ DOff /\ KOff /\ TOff /\ EOff /\ QOff
TaskSpec == TaskInit /\ [][TaskNext]_vars

(***************************************************************************)
(* Properties of the batch handler (Spec).                                 *)
(***************************************************************************)
AllDispatched == hpc \notin {"prefetch", "dispatch"}

AllSettled == AllDispatched /\ \A i \in 1..Len(batch) : Settled(task[i])

FlushWriteFailed == \E n \in 1..Len(dbLog) : dbLog[n].by = "flush" /\ ~dbLog[n].ok

NoWriteFailed == \A n \in 1..Len(dbLog) : dbLog[n].ok

\* C1: a handler that fails does not abort the batch: every instruction of
\* the batch is still dispatched, and handle is never left in its failed
\* state, short of the end-of-batch flush, because a handler task rejected
\* (it fails only if a write of the flush itself failed).
C1_HandlerFailureKeepsBatch ==
  /\ AllDispatched => \A i \in 1..Len(batch) : task[i].pc # "new"
  /\ hpc = "failed" => FlushWriteFailed

\* the curve a batch leaves behind when its instructions are applied one
\* after the other: << >> is "no curve", <<c>> is the curve c
RECURSIVE SeqCurve(_, _)
SeqCurve(c, b) ==
  IF b = << >> THEN c
  ELSE LET ins == b[1]
           after ==
             CASE ins.kind = "create" /\ ins.ok -> <<CurveRec(0, 0)>>
               [] ins.kind = "trade" /\ ins.ok ->
                    IF c = << >> THEN <<SynthCurve(ins)>>
                    ELSE <<CurveRec(NewRealSol(c[1], ins), NewRealTok(c[1], ins))>>
               [] OTHER -> c
       IN  SeqCurve(after, Tail(b))

CachedCurve(S) == IF MapHas(S["BondingCurve"], Curve)
                  THEN <<S["BondingCurve"][Curve]>> ELSE << >>

PrefetchedCurve ==
  IF Curve \in CollectCurveIds(batch) /\ MapHas(db0["BondingCurve"], Curve)
  THEN <<db0["BondingCurve"][Curve]>> ELSE << >>

\* the batch changes the curve through buy/sell instructions only
TradesOnly == \A i \in 1..Len(batch) : batch[i].kind # "create"

\* C2: once every handler task of a batch of buy/sell instructions on one
\* curve has finished (and no write to the durable store failed), the
\* bonding curve in the cache has the real reserves that applying the trade
\* deltas one after the other in stream order gives: no delta is lost.
C2_CurveAppliedInStreamOrder ==
  (TradesOnly /\ AllSettled /\ NoWriteFailed) =>
     CachedCurve(stores) = SeqCurve(PrefetchedCurve, batch)

\* C3: every write call that carries Trade records is issued after the
\* Token the trades reference is in the durable store (it was there when
\* the batch started, or an earlier call of the batch wrote it).
C3_TradeNeverBeforeToken ==
  \A n \in 1..Len(dbLog) :
     dbLog[n].kind = "Trade" =>
        \/ MapHas(db0["PumpToken"], Mint)
        \/ \E m \in 1..(n - 1) :
              dbLog[m].kind = "PumpToken" /\ Mint \in dbLog[m].ids /\ dbLog[m].ok

\* position of an entity kind in the dependency order of the flush
Rank(kind) ==
  CASE kind = "GlobalConfig" -> 1
    [] kind = "PumpToken" -> 2
    [] kind = "BondingCurve" -> 3
    [] kind = "Trade" -> 4
    [] OTHER -> 5

\* C4: the writes of the end-of-batch flush follow the order GlobalConfig,
\* Token, BondingCurve, Trade, then the event kinds: a write of one kind is
\* never followed by a write of a kind earlier in that order.
C4_FlushInDependencyOrder ==
  \A m, n \in 1..Len(dbLog) :
     (m < n /\ dbLog[m].by = "flush" /\ dbLog[n].by = "flush") =>
        Rank(dbLog[m].kind) <= Rank(dbLog[n].kind)

\* C7: save touches only the memory of the store: no call to the durable
\* store is issued from inside MemoryStore.save.
C7_SaveIssuesNoStoreCall ==
  \A n \in 1..Len(dbLog) : dbLog[n].by # "save"

\* C11: no write reaches the durable store before every instruction of the
\* batch has been dispatched and every handler task has finished: whenever
\* the call log is not empty, all tasks have settled.
C11_NoWriteBeforeAllHandlersDone ==
  dbLog # << >> => AllSettled

\* the Trade records of the batch, cached or written
TradesMade ==
  [t \in (DOMAIN stores["Trade"]) \cup (DOMAIN db["Trade"]) |->
     IF t \in DOMAIN stores["Trade"] THEN stores["Trade"][t] ELSE db["Trade"][t]]

\* C21: the trades recorded for one transaction signature get the suffixes
\* 0, 1, 2, ... in the stream order of their instructions: of two Trade
\* records the one with the smaller suffix belongs to the earlier
\* instruction, so that a replay of the batch gives every trade the same id.
C21_TradeSuffixInStreamOrder ==
  \A t1, t2 \in DOMAIN TradesMade :
     t1[2] < t2[2] => TradesMade[t1].instr < TradesMade[t2].instr

\* C10: a bulk write of the flush that fails does not make flush throw:
\* handle is not left in its failed state by a failed flush write.
C10_FlushSurvivesFailedWrite ==
  FlushWriteFailed => hpc # "failed"

(***************************************************************************)
(* Properties of the insert/update-list MemoryStore (StoreSpec).           *)
(***************************************************************************)
\* C5: no id is in insertList (pending_new) and in updateList
\* (pending_existing) at the same time.
C5_ListsDisjoint ==
  Keys(insertList) \cap Keys(updateList) = {}

\* the save calls of the batch for one id
SavesOf(id) == { n \in 1..Len(shist) : shist[n].op = "save" /\ shist[n].id = id }

\* two save calls for id, neither of which found id in updateList, the
\* second being the latest save of id
SavedTwiceAsNew(id, m, n) ==
  /\ m \in SavesOf(id) /\ n \in SavesOf(id) /\ m < n
  /\ ~shist[m].inUpdate /\ ~shist[n].inUpdate
  /\ \A k \in SavesOf(id) : k <= n

\* C6: while the batch runs, an id that was saved twice without being in
\* updateList has exactly one record in insertList, and that record holds
\* the values of the second save.
C6_SaveTwiceKeepsOneRecord ==
  InBatch =>
    \A id \in Ids : \A m, n \in 1..Len(shist) :
       SavedTwiceAsNew(id, m, n) =>
          /\ Count(insertList, id) = 1
          /\ ListGet(insertList, id) = shist[n].val

\* C6 witness: an id was saved twice as new, with different values
C6_Witness ==
  /\ InBatch
  /\ \E id \in Ids : \E m, n \in 1..Len(shist) :
        SavedTwiceAsNew(id, m, n) /\ shist[m].val # shist[n].val

\* the successful write calls of the flush that carry a record of id
WritesOf(id) ==
  { n \in 1..Len(slog) : slog[n].op # "get" /\ slog[n].ok /\ id \in Keys(slog[n].recs) }

\* the value the batch last gave id: that of its latest save
LastSaved(id) == shist[CHOOSE n \in SavesOf(id) : \A k \in SavesOf(id) : k <= n].val

\* C12: each id is written to the durable store at most once in a batch,
\* and the write carries the values of the latest save of that id.
C12_OneWritePerIdWithFinalValues ==
  \A id \in Ids :
     /\ Cardinality(WritesOf(id)) <= 1
     /\ \A n \in WritesOf(id) :
           SavesOf(id) # {} => ListGet(slog[n].recs, id) = LastSaved(id)

\* C8: a find that went to the durable store and got the record returns
\* with the id in updateList and not in insertList; a find whose lookup got
\* nothing, or failed, returns absent and leaves both lists as they were.
C8_FindContract ==
  [][ (sret'.op = "find" /\ sret'.lookup # "no") =>
         IF sret'.found
         THEN /\ sret'.lookup = "hit"
              /\ ListHas(updateList', sret'.id)
              /\ ~ListHas(insertList', sret'.id)
         ELSE /\ insertList' = insertList
              /\ updateList' = updateList ]_vars

(***************************************************************************)
(* Properties of the single-map MemoryStore with an event list (PlainSpec).*)
(***************************************************************************)
\* C9: flush writes the records that are new to the durable store with
\* upsert calls and then the loaded ones with plain save calls: no save
\* call carries a record the durable store does not have, no upsert call
\* carries one it has, and no upsert call comes after a save call.
C9_FlushUpsertsNewThenSavesLoaded ==
  \A n \in 1..Len(plog) :
     /\ plog[n].op = "save" => plog[n].fresh = {}
     /\ plog[n].op = "upsert" => plog[n].fresh = Keys(plog[n].recs)
     /\ plog[n].op = "upsert" => \A m \in 1..(n - 1) : plog[m].op # "save"

(***************************************************************************)
(* Properties of the serial handler (SerialSpec).                          *)
(***************************************************************************)
Ledgers == {one, two}

\* the curve records a ledger holds: in the cache (map and batch list) and
\* in the durable store
CurvesOf(L) ==
  { L.mem["BondingCurve"][c] : c \in DOMAIN L.mem["BondingCurve"] } \cup
  { L.bl[c] : c \in DOMAIN L.bl } \cup
  { L.db["BondingCurve"][c] : c \in DOMAIN L.db["BondingCurve"] }

\* C13: after any sequence of instructions every BondingCurve in the cache
\* or in the durable store has realSolReserves >= 0 and
\* realTokenReserves >= 0, curves made up by a trade included.
C13_ReservesNeverNegative ==
  \A L \in Ledgers : \A c \in CurvesOf(L) : c.realSol >= 0 /\ c.realTok >= 0

\* an inner instruction that is kept and decodes as a trade event
HasTradeEvent(ins) ==
  \E k \in 1..Len(ins.inner) : ins.inner[k].auth /\ ins.inner[k].decodes

Runs == {"one", "two"}
Now == [one |-> one, two |-> two]

\* the handler of instruction pos - 1 was the last thing to act on run r
\* (no flush has run and no new batch has been started since)
JustRan(r, kind) ==
  /\ pos > 1 /\ seq[pos - 1].kind = kind
  /\ lpc # "done"
  /\ r = "two" => ~(lpc = "second" /\ pos = cut + 1)

\* the curve as getBondingCurve finds it in ledger L
Existing(L, id) == Has(L, "BondingCurve", id) \/ MapHas(L.db["BondingCurve"], id)
CurveIn(L, id) == IF Has(L, "BondingCurve", id) THEN L.mem["BondingCurve"][id]
                  ELSE L.db["BondingCurve"][id]

BuyBeforeCreate ==
  \E i \in 1..Len(seq) :
     /\ seq[i].kind = "trade" /\ seq[i].isBuy /\ seq[i].mint = "M2"
     /\ \A j \in 1..(i - 1) : seq[j].mint # "M2"

\* C15: a buy for mint M2 processed before any create for M2 in the same
\* batch leaves a placeholder Token M2 and a made-up BondingCurve for the
\* trade's curve account, and the flush of that batch writes the curve to
\* the durable store.
C15_SynthesizedCurveIsFlushed ==
  lpc = "done" /\ BuyBeforeCreate =>
     /\ MapHas(one.db["PumpToken"], "M2")
     /\ MapHas(one.db["BondingCurve"], CurveOf("M2"))

\* the token as getToken finds it in ledger L
TokenKnown(L, id) == Has(L, "PumpToken", id) \/ MapHas(L.db["PumpToken"], id)
TokenIn(L, id) == IF Has(L, "PumpToken", id) THEN L.mem["PumpToken"][id]
                  ELSE L.db["PumpToken"][id]

\* C16: when the create instruction for a mint is processed after a trade
\* or withdraw left a placeholder Token for it (in the same batch or in an
\* earlier one), the Token record then carries the fields of the create
\* event.
C16_CreateOverwritesPlaceholder ==
  \A r \in Runs :
     LET mint == seq[pos - 1].mint
     IN  /\ JustRan(r, "create")
         /\ TokenKnown(prev[r], mint)
         /\ TokenIn(prev[r], mint).name = PlaceholderToken.name
         => /\ TokenKnown(Now[r], mint)
            /\ TokenIn(Now[r], mint).name = CreatedToken.name

\* the columns of the stored curves (the token reference left aside)
CurveColumns(L) ==
  [c \in DOMAIN L.db["BondingCurve"] |->
     [f \in {"realSol", "realTok", "vSol", "vTok", "supply", "fee"} |->
        L.db["BondingCurve"][c][f]]]

OneMint == \A i \in 1..Len(seq) : seq[i].mint = "M1"

\* C17: for a sequence of create, buy, sell and withdraw instructions on
\* one mint the final BondingCurve and Token records are the same whether
\* the sequence is processed in one batch or split into two consecutive
\* batches with a flush in between.
C17_SplitGivesSameRecords ==
  lpc = "done" /\ OneMint =>
     /\ CurveColumns(one) = CurveColumns(two)
     /\ one.db["PumpToken"] = two.db["PumpToken"]

\* curve id belongs to token mint in ledger L: the cached or the stored
\* curve refers to it
OwnedBy(L, id, mint) ==
  \/ Has(L, "BondingCurve", id) /\ L.mem["BondingCurve"][id].token.id = mint
  \/ MapHas(L.db["BondingCurve"], id) /\ L.db["BondingCurve"][id].token.id = mint

\* the records of an event store of ledger L, cached or stored
EventsOf(L, kind) ==
  [e \in (DOMAIN L.mem[kind]) \cup (DOMAIN L.db[kind]) |->
     IF e \in DOMAIN L.mem[kind] THEN L.mem[kind][e] ELSE L.db[kind][e]]

\* C18: withdraw on an existing BondingCurve C owned by Token M sets the
\* status of M itself to completed and creates the TokenCompleted record
\* with id {signature}-{slot}, which references M.
C18_WithdrawCompletesOwner ==
  \A r \in Runs :
     LET ins == seq[pos - 1]
         id  == <<HashOf(pos - 1), SlotOf(pos - 1)>>
     IN  JustRan(r, "withdraw") /\ OwnedBy(prev[r], ins.curve, ins.mint) =>
           /\ TokenKnown(Now[r], ins.mint)
           /\ TokenIn(Now[r], ins.mint).status = "completed"
           /\ id \in DOMAIN EventsOf(Now[r], "TokenCompleted")
           /\ EventsOf(Now[r], "TokenCompleted")[id].token = ins.mint

Processed(kind) == { i \in 1..(pos - 1) : seq[i].kind = kind }

\* C20: every processed create instruction leaves its own TokenCreated
\* record and every processed withdraw instruction its own TokenCompleted
\* record; two such instructions of one batch never share or overwrite
\* one record.
C20_OneEventRecordPerInstruction ==
  /\ Cardinality(DOMAIN EventsOf(one, "TokenCreated")) = Cardinality(Processed("create"))
  /\ Cardinality(DOMAIN EventsOf(one, "TokenCompleted")) = Cardinality(Processed("withdraw"))

\* the processed trade instructions that carried a trade event
Recorded == { i \in Processed("trade") : HasTradeEvent(seq[i]) }

\* C22: once a Trade record has been created no later instruction, of the
\* same batch or of a later one, changes or replaces it: every record that
\* existed before the last handler ran is still the same, and the trade
\* instructions processed so far have as many records as there are of them.
C22_TradeRecordsAppendOnly ==
  \A r \in Runs :
     /\ \A t \in DOMAIN EventsOf(prev[r], "Trade") :
           /\ t \in DOMAIN EventsOf(Now[r], "Trade")
           /\ EventsOf(Now[r], "Trade")[t] = EventsOf(prev[r], "Trade")[t]
     /\ Cardinality(DOMAIN EventsOf(Now[r], "Trade")) = Cardinality(Recorded)

\* the two-batch run has recorded a trade in its first and one in its
\* second batch
C22_Witness ==
  /\ lpc = "second"
  /\ \E i \in 1..cut : seq[i].kind = "trade"
  /\ \E j \in (cut + 1)..(pos - 1) : seq[j].kind = "trade"
  /\ Cardinality(DOMAIN two.db["Trade"]) >= 1
  /\ Cardinality(DOMAIN two.mem["Trade"]) >= 1

\* C23: a buy/sell instruction none of whose inner instructions (program
\* id and first account matching, discriminator of the trade event) decodes
\* as a trade event is skipped: the handler leaves the Trade, Token and
\* BondingCurve stores, the batch list, the durable store and the sequence
\* counters as they were.
C23_UndecodableTradeIsSkipped ==
  \A r \in Runs :
     JustRan(r, "trade") /\ ~HasTradeEvent(seq[pos - 1]) => Now[r] = prev[r]

\* an instruction without a trade event has just been handled after
\* another trade had left records in the stores
C23_Witness ==
  /\ JustRan("one", "trade") /\ ~HasTradeEvent(seq[pos - 1])
  /\ Len(seq[pos - 1].inner) > 0
  /\ DOMAIN one.mem["Trade"] # {}
  /\ one = prev.one

(***************************************************************************)
(* Properties of the wallet statistics (WalletSpec).                       *)
(***************************************************************************)
RECURSIVE SumLamports(_)
SumLamports(s) == IF s = << >> THEN 0 ELSE Head(s).solAmount + SumLamports(Tail(s))

\* the trades of a log that wallet w made on the tokens toks
TradesOf(log, w, toks) == SelectSeq(log, LAMBDA p : p.wallet = w /\ p.token \in toks)
Buys(log)  == SelectSeq(log, LAMBDA p : p.isBuy)
Sells(log) == SelectSeq(log, LAMBDA p : ~p.isBuy)

\* the SOL amount of a log: its lamports divided by 10^9
SolOf(log) == OfUnits(SumLamports(log))

\* C24: every trade instruction that has produced a Trade record has also
\* updated, in the same batch, the WalletStats record of its wallet and the
\* WalletTokenStats record of its (wallet, token) pair by its SOL amount:
\* the volumes of the two records are the sums over the trades recorded.
C24_TradeUpdatesWalletStats ==
  \A i \in 1..Len(wtraded) :
     LET w == wtraded[i].wallet
         m == wtraded[i].token
     IN  /\ MapHas(wstats, w)
         /\ MapHas(wtstats, <<w, m>>)
         /\ wstats[w].volumeSol = SolOf(TradesOf(wtraded, w, Mints))
         /\ wtstats[<<w, m>>].volumeSol = SolOf(TradesOf(wtraded, w, {m}))

\* running realised P&L of a log, in lamports
PnlOf(log) == SumLamports(Sells(log)) - SumLamports(Buys(log))

\* the pair's P&L has been above zero after one of the trades applied
EverPositive(w, m) ==
  \E k \in 1..Len(applied) : PnlOf(TradesOf(SubSeq(applied, 1, k), w, {m})) > 0

\* C25: successTokensCount of a wallet counts each (wallet, token) pair at
\* most once, at the trade on which the pair's running realised P&L first
\* goes from <= 0 to > 0: it is the number of tokens whose P&L has ever
\* been above zero.
C25_SuccessCountedOncePerPair ==
  \A w \in DOMAIN wstats :
     wstats[w].successTokensCount = Cardinality({m \in Mints : EverPositive(w, m)})

\* volume and realised P&L of a record agree with its buy and sell totals
Balanced(r) ==
  /\ DecEq(r.volumeSol, DecAdd(r.buySol, r.sellSol))
  /\ DecEq(r.realisedPnlSol, DecSub(r.sellSol, r.buySol))

\* C26: after any sequence of applyTrade calls every WalletTokenStats and
\* every WalletStats record has volumeSol = buySol + sellSol and
\* realisedPnlSol = sellSol - buySol, where buySol and sellSol are the sums
\* of the SOL amounts (lamports / 10^9) of the buys and of the sells that
\* were applied to the record.
C26_StatsAreSumsOfTrades ==
  /\ \A id \in DOMAIN wtstats :
        LET log == TradesOf(applied, id[1], {id[2]})
        IN  /\ wtstats[id].buySol  = SolOf(Buys(log))
            /\ wtstats[id].sellSol = SolOf(Sells(log))
            /\ Balanced(wtstats[id])
  /\ \A w \in DOMAIN wstats :
        LET log == TradesOf(applied, w, Mints)
        IN  /\ wstats[w].buySol  = SolOf(Buys(log))
            /\ wstats[w].sellSol = SolOf(Sells(log))
            /\ Balanced(wstats[w])
  /\ \A id \in DOMAIN wdb.WalletTokenStats : Balanced(wdb.WalletTokenStats[id])
  /\ \A w \in DOMAIN wdb.WalletStats : Balanced(wdb.WalletStats[w])

\* a wallet has bought and sold one token and traded a second one
C26_Witness ==
  \E w \in DOMAIN wstats :
     /\ wstats[w].tokenCount = 2
     /\ \E m \in Mints : /\ MapHas(wtstats, <<w, m>>)
                         /\ DecGt(wtstats[<<w, m>>].buySol, ZERO_DEC)
                         /\ DecGt(wtstats[<<w, m>>].sellSol, ZERO_DEC)

(***************************************************************************)
(* Properties of the GlobalService (GlobalSpec).                           *)
(***************************************************************************)
\* the instruction handled last was of this kind and decoded
JustHandled(kind) == glast # << >> /\ glast[1].kind = kind /\ glast[1].ok

\* C27: an initialize instruction processed when no GlobalConfig exists
\* creates the GlobalConfig "global" with the instruction's signer as
\* feeRecipient and 30 as feeBasisPoints.
C27_InitializeCreatesGlobal ==
  JustHandled("initialize") /\ ~glast[1].existed
    => /\ MapHas(gmem, GlobalId)
       /\ gmem[GlobalId].feeRecipient = glast[1].user
       /\ gmem[GlobalId].feeBasisPoints = 30

\* C28: after a setParams instruction is processed the GlobalConfig
\* carries the fee recipient and the fee basis points the instruction
\* gave, and the curve of every later create has the initial reserves and
\* the total supply the most recent setParams gave.
C28_SetParamsTakesEffect ==
  /\ JustHandled("setParams")
       => /\ MapHas(gmem, GlobalId)
          /\ gmem[GlobalId].feeRecipient = gset[1].feeRecipient
          /\ gmem[GlobalId].feeBasisPoints = gset[1].feeBasisPoints
  /\ \A c \in DOMAIN gcurves :
        gcurves[c].after # << >>
          => gcurves[c].curve = SeededCurve(gcurves[c].after[1].seed)

(***************************************************************************)
(* Properties of the two passes of handle (CollectSpec).                   *)
(***************************************************************************)
\* C29: for every buy or sell of the batch, the bonding-curve id that
\* processTradeInstruction looks up (the bondingCurve account under the
\* layout of the instruction's own kind) is in the curveIds returned by
\* collectEntityIds, and the mint of its trade event is in tokenIds.
C29_TradeIdsArePrefetched ==
  \A l \in clooked : l.curve \in cids.curveIds /\ l.token \in cids.tokenIds

\* a decode call of the first pass throws on this instruction
CollectFails(ins) ==
  CASE ins.kind = "create"   -> ins.inner # << >> /\ ~ins.inner[1].decodes
    [] ins.kind = "withdraw" -> ~ins.decodes
    [] OTHER                 -> \/ ins.inner # << >> /\ ~ins.inner[1].decodes
                                \/ ~ins.buyDecodes

\* the ids an instruction can give to the prefetch sets
NamedBy(ins) == {ins.mint, CurveOf(ins.mint), ins.accounts[1]}

Collected == cpc \in {"dispatch", "done", "failed"}

\* ids come only from instructions whose decoding did not fail
C30_FailedContributesNothing ==
  Collected =>
    \A id \in cids.tokenIds \cup cids.curveIds :
       \E j \in 1..Len(cbatch) : ~CollectFails(cbatch[j]) /\ id \in NamedBy(cbatch[j])

\* the first pass returns, and the ids of the other instructions are there
C30_CollectionGoesOn ==
  /\ cpc # "failed"
  /\ Collected =>
       \A j \in 1..Len(cbatch) :
          ~CollectFails(cbatch[j]) =>
             /\ cbatch[j].kind = "withdraw" => CurveOf(cbatch[j].mint) \in cids.curveIds
             /\ cbatch[j].inner # << >> => cbatch[j].inner[1].mint \in cids.tokenIds

\* every instruction is handed to its service
C30_AllDispatched == cpc = "done" => chandled = 1..Len(cbatch)

\* C30: an instruction whose decoding fails during collectEntityIds
\* contributes nothing to the prefetch sets, does not make
\* collectEntityIds or handle fail, does not stop the collection of the
\* ids of the remaining instructions, and is still dispatched to its
\* handler in the dispatch pass.
C30_DecodeFailureIsTolerated ==
  /\ C30_FailedContributesNothing
  /\ C30_CollectionGoesOn
  /\ C30_AllDispatched

(***************************************************************************)
(* Properties of the decoder (DecoderSpec).                                *)
(***************************************************************************)
\* C31: a payload whose discriminator matches no known layout never makes
\* the decoder throw: identifyEventType, decodeEvent and decode report
\* the Unknown type, the dispatcher counts the instruction as unknown and
\* goes on, and no entity state changes.
C31_UnknownDiscriminatorNeverThrows ==
  /\ \A i \in 1..Len(dlog) :
        dlog[i].d8 \notin EventDiscriminators \cup LayoutDiscriminators
          => ~dlog[i].threw /\ dlog[i].type = "Unknown" /\ ~dlog[i].changed
  /\ dunknown = Cardinality({i \in 1..Len(dlog) :
                   dlog[i].entry = "dispatch" /\ dlog[i].d8 \notin LayoutDiscriminators})

(***************************************************************************)
(* Properties of the write calls of a flush (ChunkSpec).                   *)
(***************************************************************************)
\* the calls that carry this record
CallsWith(r) ==
  {c \in 1..Len(kcalls) : \E k \in 1..Len(kcalls[c].records) : kcalls[c].records[k] = r}

KAllPending == {kfirst[k] : k \in 1..Len(kfirst)} \cup {ksecond[k] : k \in 1..Len(ksecond)}

\* C32: no write call of a flush carries more records than the bounded
\* batch size, and when every write succeeds the consecutive calls cover
\* every pending record exactly once.
C32_WritesAreChunked ==
  /\ \A c \in 1..Len(kcalls) : Len(kcalls[c].records) <= ChunkLimit
  /\ kpc = "done" /\ (\A c \in 1..Len(kcalls) : kcalls[c].ok)
       => \A r \in KAllPending : Cardinality(CallsWith(r)) = 1

(***************************************************************************)
(* Properties of the store with a threshold (ThresholdSpec).               *)
(***************************************************************************)
\* C33: within one batch, after save(e), find(e.id) returns the record
\* saved last for that id until the end-of-batch flush, however many other
\* entities are saved in between, also when the store has passed its
\* threshold and cleared its map.
C33_FindReturnsLastSaved ==
  tfound # << >> /\ MapHas(tsaved, tfound[1]) => tfound[2] = <<tsaved[tfound[1]]>>

(***************************************************************************)
(* Properties of the end-of-batch save (EndSpec).                          *)
(***************************************************************************)
\* C34: every store obtained through getStore that holds pending entities
\* when the dispatch pass ends, the WalletStats and WalletTokenStats stores
\* included, has been flushed when the end-of-batch save returns, so every
\* entity saved during the batch is written to the durable store.
C34_EveryPendingStoreIsFlushed ==
  epc = "done" => epending = {} /\ estores \subseteq edb


(***************************************************************************)
(* Token status over the serial handler (SerialSpec).                      *)
(***************************************************************************)
\* the ids of the tokens getToken can find in ledger L
TokenIdsOf(L) == (DOMAIN L.mem["PumpToken"]) \cup (DOMAIN L.db["PumpToken"])

\* the instruction at pos - 1 has just been handled on run r and token m
\* was completed before it
CompletedBefore(r, m) ==
  /\ pos > 1 /\ JustRan(r, seq[pos - 1].kind)
  /\ m \in TokenIdsOf(prev[r])
  /\ TokenIn(prev[r], m).status = "completed"

TokensTraded(w) ==
  { applied[i].token : i \in { j \in 1..Len(applied) : applied[j].wallet = w } }

\* C36: after any sequence of applyTrade calls, WalletStats.tokenCount of a
\* wallet is the number of distinct tokens for which the wallet has an
\* applied trade: one increment per (wallet, token) pair, on its first
\* trade, also when some trades have a SOL amount of zero.
C36_TokenCountIsDistinctTokens ==
  \A w \in Wallets :
     MapHas(wstats, w) => wstats[w].tokenCount = Cardinality(TokensTraded(w))
(***************************************************************************)
(* Properties of the lock-protected StoreManager (LockSpec, LockFairSpec). *)
(***************************************************************************)
\* C37: at most one durable-store operation (a queued flush, a queued
\* batchSave or a findEntitiesByIds read) holds transactionLock at any
\* time, and the queued operations are executed one at a time in the order
\* in which they were scheduled.
C37_OneHolderAndFifo ==
  /\ Cardinality(qholders) <= 1
  /\ qholders # {} => transactionLock
  /\ qpc \in {"acquired", "upsert"} => 0 \in qholders
  /\ \A i \in 1..Len(qexec) : qexec[i] = i

\* a reader holds the lock while the queue is waiting for it, and an
\* operation was executed after another
C37_Witness ==
  /\ Len(qexec) >= 2
  /\ \E f \in Finders : qfind[f] = "done"
  /\ \E o \in OpIds : Len(qsettled[o]) = 1


\* What the scheduling of the code guarantees: a timer that was set fires,
\* a continuation that is ready runs, and a call to the durable store
\* returns or throws.  Calls of scheduleFlush, scheduleBatchSave and
\* findEntitiesByIds are made by the services and need not come.
LockFairness ==
  /\ WF_vars(QPoll) /\ WF_vars(QRun) /\ WF_vars(QUpsertDone)
  /\ WF_vars(FPoll) /\ WF_vars(FRun) /\ WF_vars(FDone)

LockFairSpec == LockInit /\ [][LockNext]_vars /\ LockFairness

\* every operation scheduled so far has been resolved or rejected
AllOperationsSettled == qn > 0 /\ \A o \in 1..qn : Len(qsettled[o]) = 1

TaskFairSpec ==
  TaskInit /\ [][TaskNext]_vars
    /\ WF_vars(RRunUpdate) /\ WF_vars(RRunRetry) /\ WF_vars(RLoopEnd)

\* C39: the end-of-batch loop over processorContext.queue runs every
\* deferred task, tasks appended by other tasks while the loop is running
\* included, and terminates, also when a queued retry of
\* createBondingCurve keeps failing with a transaction-abort error and
\* re-queues itself.
C39_TaskLoopTerminates == <>(rpc = "done" /\ rqueue = << >>)

====
